---- MODULE Spec2Model ----
(***************************************************************************)
(* A model of the lancast streaming core: the fragmenter and the           *)
(* reassembler (net/packet_fragmenter.cpp, net/packet_assembler.cpp), the  *)
(* two queues (core/thread_safe_queue.h, core/ring_buffer.h) and the host  *)
(* and viewer protocol endpoints (net/server.cpp, net/client.cpp).         *)
(*                                                                         *)
(* Sizes are scaled: a fragment carries MAX_FRAGMENT_DATA bytes (1184 in   *)
(* the program), the 8-bit fragment fields count modulo FRAG_MOD (256 in   *)
(* the program).  Times are in milliseconds.                               *)
(***************************************************************************)
EXTENDS Integers, Sequences, FiniteSets, TLC

VARIABLES
    \* ---- reassembler (PacketAssembler) and its clock
    pending_,      \* PacketAssembler::pending_ : key -> FrameState
    now,           \* std::chrono::steady_clock::now(), in ms
    srcPacket,     \* the EncodedPacket under round trip (history)
    feedLog,       \* fragment indices fed so far (history)
    emitLog,       \* packets feed() has returned, in order (history)
    reportLog,     \* what check_incomplete_keyframes has reported (history)
    checkCalls,    \* calls of check_incomplete_keyframes so far (history)
    nextEid,       \* number of reassembly entries created so far (history)
    \* ---- MPSC queue (ThreadSafeQueue)
    queue_,        \* ThreadSafeQueue::queue_
    closed_,       \* ThreadSafeQueue::closed_
    max_size_,     \* ThreadSafeQueue::max_size_ (0: unbounded)
    mutex_,        \* ThreadSafeQueue::mutex_ : its owner, or "free"
    ppc,           \* where each producer is in push()
    pcount,        \* items each producer has pushed
    cpc,           \* where the consumer is in wait_pop()
    clpc,          \* where the closing thread is in close()
    pushLog,       \* items enqueued, in the order of the lock (history)
    removeLog,     \* items taken out of queue_, by pop or eviction (history)
    popLog,        \* items try_pop / wait_pop returned (history)
    \* ---- SPSC ring (RingBuffer)
    buffer_,       \* RingBuffer::buffer_
    head_,         \* RingBuffer::head_
    tail_,         \* RingBuffer::tail_
    prodPc,        \* where the producer is in try_push()
    prodHead,      \* try_push's local head
    prodNext,      \* try_push's local next
    prodCalls,     \* calls of try_push so far; call n pushes the value n
    consPc,        \* where the consumer is in try_pop()
    consTail,      \* try_pop's local tail
    consItem,      \* try_pop's local item
    headStores,    \* number of stores to head_ (history)
    tailStores,    \* number of stores to tail_ (history)
    prodSeenTail,  \* the latest store to tail_ the producer has read from
    consSeenHead,  \* the latest store to head_ the consumer has read from
    slotLive,      \* slots written and not yet read (history)
    overwritten,   \* a live slot was written (history)
    pushOk,        \* values whose try_push returned true, in order (history)
    pushFail,      \* values whose try_push returned false (history)
    ringPopLog,    \* values try_pop returned, in order (history)
    \* ---- viewer connection (Client::connect, Client::disconnect)
    state_,        \* Client::state_
    socketOk,      \* socket_.is_valid()
    viewerConfig,  \* Client::config_
    connPc,        \* where the viewer is in connect()
    connRet,       \* what the last connect() returned (history)
    connFirst,     \* what the first recv_from of the last connect() returned (history)
    connCalls,     \* calls of connect() so far (history)
    viewerSent,    \* types of the datagrams the viewer has sent, in order (history)
    \* ---- host (Server)
    clients_,      \* Server::clients_
    sequence_,     \* Server::sequence_
    hostConfig,    \* Server::config_
    last_keyframe_,  \* Server::last_keyframe_
    hostNow,       \* the host's steady_clock, in ms
    last_ping_time_, \* Server::last_ping_time_
    silent,        \* endpoints that have stopped sending for good
    hostOut,       \* datagrams the last poll() or broadcast() sent, in order (history)
    lastPoll,      \* what the last poll() received and found (history)
    \* ---- the network between the host and a viewer, and the viewer's poll()
    toViewer,      \* datagrams on their way to the viewer, each with the number of its send
    toHost,        \* datagrams on their way to the host
    netSeq,        \* datagrams sent so far (history)
    bcastCount,    \* calls of broadcast() so far (history)
    nackLog,       \* the NACKs the viewer has sent, in order (history)
    fedLog,        \* the fragments stored by feed(), in order, with their entries (history)
    emitEids,      \* the entries of the frames in emitLog (history)
    lastViewerPoll, \* what the viewer's last poll() received (history)
    \* ---- host: audio sent upstream by the viewers
    client_audio_assembler_, \* Server::client_audio_assembler_ : its pending_ map
    clientAudioCalls, \* the packets client_audio_cb_ was invoked with, in order (history)
    upstreamLog,   \* the valid VIDEO_DATA / AUDIO_DATA datagrams poll() received (history)
    \* ---- host: the two mutexes and the threads that take them
    clients_mutex_,  \* Server::clients_mutex_ : its owner, or "free"
    keyframe_mutex_, \* Server::keyframe_mutex_ : its owner, or "free"
    lockPc,        \* where each thread is in the Server function it runs
    lockLeft,      \* socket sends each thread has still to make in its loop
    \* ---- sessions: stop()
    session,       \* "host" (HostSession) or "viewer" (ClientSession)
    joinable,      \* the threads that were spawned
    stopPc,        \* statements of stop() executed so far
    stopLog,       \* request_stop / close / join calls made by stop(), in order (history)
    threadState,   \* each spawned thread: "running", "stopping" or "exited"
    \* ---- viewer: decode_loop
    video_queue_,  \* ClientSession::video_queue_
    decoded_queue_, \* ClientSession::decoded_queue_
    keyframeReqs,  \* KEYFRAME_REQ datagrams the viewer has sent (history)
    decodeLog,     \* the packets decode() was called with, and whether it gave a frame (history)
    \* ---- fragmenter and reassembler under test
    fragResult,    \* what fragment(srcPacket) gave: not called, aborted, or fragments
    frames,        \* the frames whose fragments are fed (history)
    feedResults,   \* what each feed() returned, in order (history)
    purgeLog,      \* the calls of purge_stale: timeout, time, keys erased (history)
    \* ---- datagrams as bytes
    wireIn,        \* the Packet handed to serialize()
    wireBytes,     \* the bytes serialize() gave
    wireOut,       \* what deserialize() made of wireBytes
    lastRaw,       \* the bytes of the datagram the last poll() received (history)
    \* ---- MPSC queue: what its calls returned
    queueRet,      \* the last try_pop / wait_pop of a closed queue or is_closed: its result (history)
    \* ---- host: the handshake of each endpoint
    lastShake,     \* the type of the last HELLO or BYE poll() took from each endpoint (history)
    \* ---- host: the adaptive bitrate
    target_bitrate_,   \* HostSession::target_bitrate_
    current_bitrate_,  \* HostSession::current_bitrate_
    last_bitrate_check_, \* HostSession::last_bitrate_check_, in ms
    rateNow,       \* the steady_clock of the recv thread, in ms
    encoder_,      \* VideoEncoder: bitrate_, initialized_, force_keyframe_
    lastAbr,       \* what the last check_adaptive_bitrate past the 5 s gate did (history)
    \* ---- host: broadcast() and handle_nack() on their threads
    bcast,         \* the send thread in broadcast(): where it is, its packet and fragments
    nack,          \* the poll thread in handle_nack(): where it is, pkt, i, offset, what it sent
    kfBroadcast,   \* the keyframes broadcast, in the order of keyframe_mutex_ (history)
    nackDone,       \* the last handle_nack that returned: pkt, what it sent, the keyframe then (history)
    \* ---- viewer: the render loop
    render,       \* the render loop of run(): where it is, its frame, what it popped and rendered
    \* ---- sessions: the threads' loops
    loops,        \* the flag the loops of the session's threads test: running_
    \* ---- host: sequence_ on two threads
    seqRace,      \* the send and the poll thread at their sequence_++: where each is, what it loaded, the numbers given out
    \* ---- host: broadcast() and the peer table
    bloop,        \* the send thread in broadcast()'s loop: where it is, the peers at the lock, what it has sent; the calls made and the HELLOs and BYEs handled (history)
    \* ---- viewer and host: connect() over a network that loses datagrams
    recover,      \* the datagrams on their way between the viewer's connect() and the host, and how many were lost
    \* ---- host: a KEYFRAME_REQ through the encode and send threads
    kfpipe       \* the host's video pipeline as far as a keyframe request goes: the frames in the two rings, the encoder's place in its GOP, the requests handled, whether a keyframe is owed

asmVars == <<pending_, now, srcPacket, feedLog, emitLog, reportLog, checkCalls, nextEid>>

queueVars == <<queue_, closed_, max_size_, mutex_, ppc, pcount, cpc, clpc,
               pushLog, removeLog, popLog>>

ringVars == <<buffer_, head_, tail_, prodPc, prodHead, prodNext, prodCalls, consPc,
              consTail, consItem, headStores, tailStores, prodSeenTail, consSeenHead,
              slotLive, overwritten, pushOk, pushFail, ringPopLog>>

connVars == <<state_, socketOk, viewerConfig, connPc, connRet, connFirst, connCalls,
              viewerSent>>

hostVars == <<clients_, sequence_, hostConfig, last_keyframe_, hostNow, last_ping_time_,
              silent, hostOut, lastPoll>>

netVars == <<toViewer, toHost, netSeq, bcastCount, nackLog, fedLog, emitEids, lastViewerPoll>>

upVars == <<client_audio_assembler_, clientAudioCalls, upstreamLog>>

lockVars == <<clients_mutex_, keyframe_mutex_, lockPc, lockLeft>>

stopVars == <<session, joinable, stopPc, stopLog, threadState>>

decVars == <<video_queue_, decoded_queue_, keyframeReqs, decodeLog>>

testVars == <<fragResult, frames, feedResults, purgeLog>>

wireVars == <<wireIn, wireBytes, wireOut, lastRaw>>

rateVars == <<target_bitrate_, current_bitrate_, last_bitrate_check_, rateNow, encoder_, lastAbr>>

cacheVars == <<bcast, nack, kfBroadcast, nackDone>>

lastVars == <<render, loops, seqRace, bloop, recover, kfpipe>>
\* the same without one of them
nonRenderLast == <<loops, seqRace, bloop, recover, kfpipe>>
nonLoopsLast == <<render, seqRace, bloop, recover, kfpipe>>
nonSeqRaceLast == <<render, loops, bloop, recover, kfpipe>>
nonBloopLast == <<render, loops, seqRace, recover, kfpipe>>
nonRecoverLast == <<render, loops, seqRace, bloop, kfpipe>>
nonKfpipeLast == <<render, loops, seqRace, bloop, recover>>
nonRenderMore == <<wireVars, queueRet, lastShake, rateVars, cacheVars, nonRenderLast>>
nonLoopsMore == <<wireVars, queueRet, lastShake, rateVars, cacheVars, nonLoopsLast>>
nonSeqRaceMore == <<wireVars, queueRet, lastShake, rateVars, cacheVars, nonSeqRaceLast>>
nonBloopMore == <<wireVars, queueRet, lastShake, rateVars, cacheVars, nonBloopLast>>
nonRecoverMore == <<wireVars, queueRet, lastShake, rateVars, cacheVars, nonRecoverLast>>
nonKfpipeMore == <<wireVars, queueRet, lastShake, rateVars, cacheVars, nonKfpipeLast>>

moreVars == <<wireVars, queueRet, lastShake, rateVars, cacheVars, lastVars>>
\* the same without one of them
nonWireMore == <<queueRet, lastShake, rateVars, cacheVars, lastVars>>
nonRetMore == <<wireVars, lastShake, rateVars, cacheVars, lastVars>>
nonShakeMore == <<wireVars, queueRet, rateVars, cacheVars, lastVars>>
nonRateMore == <<wireVars, queueRet, lastShake, cacheVars, lastVars>>
nonCacheMore == <<wireVars, queueRet, lastShake, rateVars, lastVars>>

extVars == <<upVars, lockVars, stopVars, decVars, testVars, moreVars>>

vars == <<asmVars, queueVars, ringVars, connVars, hostVars, netVars, extVars>>

\* what the steps of one component leave alone
nonAsmVars == <<queueVars, ringVars, connVars, hostVars, netVars, extVars>>
nonQueueVars == <<asmVars, ringVars, connVars, hostVars, netVars, extVars>>
nonRingVars == <<asmVars, queueVars, connVars, hostVars, netVars, extVars>>
nonConnVars == <<asmVars, queueVars, ringVars, hostVars, netVars, extVars>>
nonHostVars == <<asmVars, queueVars, ringVars, connVars, netVars, extVars>>
coreVars == <<asmVars, queueVars, ringVars, connVars, hostVars, netVars>>
nonUpVars == <<asmVars, queueVars, ringVars, connVars, netVars, lockVars, stopVars, decVars, testVars, moreVars>>
nonLockVars == <<coreVars, upVars, stopVars, decVars, testVars, moreVars>>
nonStopVars == <<coreVars, upVars, lockVars, decVars, testVars, moreVars>>
nonDecVars == <<coreVars, upVars, lockVars, stopVars, testVars, moreVars>>
nonTestVars == <<queueVars, ringVars, connVars, hostVars, netVars, upVars, lockVars, stopVars, decVars, moreVars>>

-----------------------------------------------------------------------------
(* Bounds of the model *)

\* bytes of frame data per fragment (MAX_UDP_PAYLOAD - HEADER_SIZE = 1184 in
\* the program, protocol.h:17), scaled
MAX_FRAGMENT_DATA == 2
\* the modulus of the 8-bit frag_idx / frag_total header fields (256), scaled
FRAG_MOD == 4
\* the modulus of the 32-bit header timestamp (2^32), scaled
TS_MOD == 8
\* the modulus of the header sequence counter, scaled
SEQ_MOD == 4
\* longest frame data of the round-trip packets
MaxDataLen == 5
\* number of feed() calls in one round trip
MaxFeeds == 5
\* the clock stops here
MaxNow == 600
\* reassembly entries created in one run
MaxEntries == 2
\* calls of check_incomplete_keyframes in one run
MaxChecks == 2
\* largest capacity a ThreadSafeQueue is built with
MaxCap == 2
\* items each producer pushes
MaxPush == 2
\* the ring's Capacity is 2^RingLog2
RingLog2 == 2
\* calls of try_push in one run
MaxRingCalls == 7
\* sizeof(WelcomePayload), in bytes of the model
WelcomePayloadSize == 2
\* calls of connect() in one run
MaxConnects == 2
\* sizeof(PingPayload), in elements of a payload of the model
PingPayloadSize == 1
\* sizeof(NackPayload), in elements of a payload of the model
NackPayloadSize == 2
\* VIDEO_DATA / AUDIO_DATA datagrams the host receives in one run
MaxUpstream == 3
\* datagrams one loop of the host sends
MaxSends == 2
\* packets the viewer's poll() hands to the decode loop in one run
MaxDecode == 3
\* the capacity decoded_queue_ is built with (4 in the program), scaled
DecodedCap == 2
\* calls of purge_stale in one run
MaxPurges == 2
\* the step of the host's clock, in ms
HostTickMs == 10000
\* the host's clock stays below this, in ms
MaxHostNow == 20000
\* timestamps from here on do not fit the clock's nanosecond count
TimestampLimit == 30000

\* datagrams the host and the viewer receive as bytes in one run
MaxRawPolls == 3
\* items each producer pushes to the queue that is closed
MaxClosePushes == 1

\* checks of the adaptive bitrate that pass the 5 s gate in one run
MaxAbrChecks == 3

\* NACKs the host handles while it broadcasts
MaxNacks == 2

(* Program constants *)
PROTOCOL_MAGIC == 170
PROTOCOL_VERSION == 1
VIDEO_DATA == 1
AUDIO_DATA == 2
HELLO == 16
WELCOME == 17
NACK == 19
KEYFRAME_REQ == 20
PING == 32
PONG == 33
BYE == 48
STREAM_CONFIG == 64
\* Server::PING_INTERVAL, in ms
PING_INTERVAL_MS == 2000
\* the largest round trip time handle_pong takes, in ms
RTT_MAX_MS == 10000
NACK_AGE_MS == 100
PURGE_TIMEOUT_MS == 500

\* bytes of a serialized PacketHeader
HEADER_SIZE == 16
FLAG_KEYFRAME == "KEYFRAME"
FLAG_FIRST == "FIRST"
FLAG_LAST == "LAST"

Byte == {0, 1}
Min(a, b) == IF a < b THEN a ELSE b

RECURSIVE Zeros(_)
\* n elements of value 0
Zeros(n) == IF n <= 0 THEN <<>> ELSE Append(Zeros(n - 1), 0)

RECURSIVE SeqsUpTo(_, _)
\* all sequences over S of length 0..n
SeqsUpTo(S, n) ==
    IF n = 0 THEN {<<>>}
    ELSE LET shorter == SeqsUpTo(S, n - 1)
         IN shorter \cup {Append(s, x) : s \in {t \in shorter : Len(t) = n - 1}, x \in S}

-----------------------------------------------------------------------------
(* Wire format: net/protocol.h *)

\* an is_valid that looks at the magic only
is_valid_magic_only(h) == h.magic = PROTOCOL_MAGIC

\* PacketHeader::is_valid
is_valid(h) == h.magic = PROTOCOL_MAGIC /\ h.version = PROTOCOL_VERSION

\* a default-constructed PacketHeader with the given fields set
Header(type, flags, sequence, timestamp_us, frame_id, frag_idx, frag_total) ==
    [magic |-> PROTOCOL_MAGIC, version |-> PROTOCOL_VERSION, type |-> type,
     flags |-> flags, sequence |-> sequence, timestamp_us |-> timestamp_us,
     frame_id |-> frame_id, frag_idx |-> frag_idx, frag_total |-> frag_total]

-----------------------------------------------------------------------------
(* Fragmenter: net/packet_fragmenter.cpp *)

\* num_frags = (data_size + MAX_FRAGMENT_DATA - 1) / MAX_FRAGMENT_DATA
NumFrags(data_size) == (data_size + MAX_FRAGMENT_DATA - 1) \div MAX_FRAGMENT_DATA

\* the switch on encoded.type
PacketTypeOf(frameType) == IF frameType = "Audio" THEN AUDIO_DATA ELSE VIDEO_DATA

FragmentFlags(frameType, i, num_frags) ==
    (IF frameType = "VideoKeyframe" THEN {FLAG_KEYFRAME} ELSE {})
        \cup (IF i = 0 THEN {FLAG_FIRST} ELSE {})
        \cup (IF i = num_frags - 1 THEN {FLAG_LAST} ELSE {})

\* a fragmenter that does not limit the chunk
FragmentPayloadRest(data, i) == SubSeq(data, i * MAX_FRAGMENT_DATA + 1, Len(data))

\* the payload of fragment i: bytes [i*MAX, i*MAX + chunk)
FragmentPayload(data, i) ==
    LET offset == i * MAX_FRAGMENT_DATA
        chunk == Min(MAX_FRAGMENT_DATA, Len(data) - offset)
    IN SubSeq(data, offset + 1, offset + chunk)

\* PacketFragmenter::fragment: the fragments of encoded, numbered from sequence
fragment(encoded, sequence) ==
    LET data_size == Len(encoded.data)
        num_frags == NumFrags(data_size)
    IN IF data_size = 0 THEN <<>>
       ELSE [k \in 1..num_frags |->
                [header |-> Header(PacketTypeOf(encoded.type),
                                   FragmentFlags(encoded.type, k - 1, num_frags),
                                   (sequence + (k - 1)) % SEQ_MOD,
                                   encoded.pts_us % TS_MOD,
                                   encoded.frame_id,
                                   (k - 1) % FRAG_MOD,
                                   num_frags % FRAG_MOD),
                 payload |-> FragmentPayload(encoded.data, k - 1)]]

-----------------------------------------------------------------------------
(* Reassembler: net/packet_assembler.cpp *)

\* a key that leaves the packet type out
FrameKeyIdOnly(h) == <<h.frame_id, VIDEO_DATA>>

\* FrameKey{h.frame_id, h.type}
FrameKey(h) == <<h.frame_id, h.type>>

RECURSIVE EmptySlots(_)
\* state.fragments.resize(n): n empty payloads
EmptySlots(n) == IF n = 0 THEN <<>> ELSE Append(EmptySlots(n - 1), <<>>)

\* the FrameState feed() builds for the first fragment of a key
NewFrameState(h, t, eid) ==
    [frame_id |-> h.frame_id, frag_total |-> h.frag_total, frags_received |-> 0,
     type |-> h.type, flags |-> h.flags, timestamp_us |-> h.timestamp_us,
     fragments |-> EmptySlots(h.frag_total),
     created |-> t, nack_sent |-> FALSE, eid |-> eid]

RECURSIVE ConcatFrom(_, _)
ConcatFrom(frags, i) ==
    IF i > Len(frags) THEN <<>> ELSE frags[i] \o ConcatFrom(frags, i + 1)

\* result.data: the fragments' bytes in index order
Concat(frags) == ConcatFrom(frags, 1)

\* the FrameType feed() gives the assembled packet
AssembledType(state) ==
    IF state.type = AUDIO_DATA THEN "Audio"
    ELSE IF FLAG_KEYFRAME \in state.flags THEN "VideoKeyframe"
    ELSE "VideoPFrame"

\* the EncodedPacket feed() returns for a complete entry
Assemble(state) ==
    [data |-> Concat(state.fragments), type |-> AssembledType(state),
     pts_us |-> state.timestamp_us, frame_id |-> state.frame_id]

Erase(pend, key) == [k \in DOMAIN pend \ {key} |-> pend[k]]

\* the slot test of feed(): a stored fragment is recognised by its bytes
SlotFilled(state, frag_idx) == state.fragments[frag_idx + 1] # <<>>

\* PacketAssembler::feed at time t: the map afterwards and the optional result
\* (<<>> is std::nullopt, <<p>> a value)
feed(pend, packet, t, eid) ==
    LET h == packet.header
        key == FrameKey(h)
    IN IF ~is_valid(h) THEN [pending |-> pend, result |-> <<>>]
       ELSE IF h.frag_total = 0 THEN [pending |-> pend, result |-> <<>>]
       ELSE
         LET pend1 == IF key \in DOMAIN pend THEN pend
                      ELSE pend @@ (key :> NewFrameState(h, t, eid))
             state == pend1[key]
         IN IF h.frag_idx >= state.frag_total
                THEN [pending |-> pend1, result |-> <<>>]
            ELSE IF SlotFilled(state, h.frag_idx)
                THEN [pending |-> pend1, result |-> <<>>]
            ELSE
              LET stored == [state EXCEPT
                                !.fragments[h.frag_idx + 1] = packet.payload,
                                !.frags_received = @ + 1,
                                !.flags = @ \cup h.flags]
              IN IF stored.frags_received < stored.frag_total
                     THEN [pending |-> [pend1 EXCEPT ![key] = stored], result |-> <<>>]
                 ELSE [pending |-> Erase(pend1, key), result |-> <<Assemble(stored)>>]

RECURSIVE MissingFrom(_, _)
\* the indices i >= from whose slot is empty, ascending
MissingFrom(state, from) ==
    IF from >= state.frag_total THEN <<>>
    ELSE (IF state.fragments[from + 1] = <<>> THEN <<from>> ELSE <<>>)
             \o MissingFrom(state, from + 1)

\* kf.missing_indices of check_incomplete_keyframes
MissingIndices(state) == MissingFrom(state, 0)

\* a check_incomplete_keyframes that does not look at the age
ReportableAtAnyAge(state, age_ms, t) ==
    /\ FLAG_KEYFRAME \in state.flags
    /\ ~state.nack_sent
    /\ MissingIndices(state) # <<>>

\* the entries check_incomplete_keyframes(age_ms) reports at time t
Reportable(state, age_ms, t) ==
    /\ FLAG_KEYFRAME \in state.flags
    /\ ~state.nack_sent
    /\ ~(t - state.created < age_ms)
    /\ MissingIndices(state) # <<>>

\* a check_incomplete_keyframes that forgets to set nack_sent
MarkReportedForgotten(state) == state

\* the flag check_incomplete_keyframes leaves on a reported entry
MarkReported(state) == [state EXCEPT !.nack_sent = TRUE]

\* PacketAssembler::check_incomplete_keyframes: the map afterwards and the
\* reported keyframes (a set: the map's iteration order is unspecified)
check_incomplete_keyframes(pend, age_ms, t) ==
    LET hit == {k \in DOMAIN pend : Reportable(pend[k], age_ms, t)}
    IN [pending |-> [k \in DOMAIN pend |->
                        IF k \in hit THEN MarkReported(pend[k]) ELSE pend[k]],
        result |-> {[frame_id |-> pend[k].frame_id, frag_total |-> pend[k].frag_total,
                     missing_indices |-> MissingIndices(pend[k]),
                     eid |-> pend[k].eid, age |-> t - pend[k].created] : k \in hit}]

\* a purge_stale that erases nothing
PurgeNothing(pend, timeout_ms, t) == pend

\* PacketAssembler::purge_stale
purge_stale(pend, timeout_ms, t) ==
    [k \in {x \in DOMAIN pend : ~(t - pend[x].created > timeout_ms)} |-> pend[k]]

-----------------------------------------------------------------------------
(* MPSC queue: core/thread_safe_queue.h *)

Producers == {"p1", "p2"}

\* a default-constructed queue of capacity c, nobody inside
QueueInit(c) ==
    /\ queue_ = <<>>
    /\ closed_ = FALSE
    /\ max_size_ = c
    /\ mutex_ = "free"
    /\ ppc = [p \in Producers |-> "idle"]
    /\ pcount = [p \in Producers |-> 0]
    /\ cpc = "idle"
    /\ clpc = "idle"
    /\ pushLog = <<>>
    /\ removeLog = <<>>
    /\ popLog = <<>>

\* the queue while another part of the program is looked at
QueueIdle == QueueInit(0)

-----------------------------------------------------------------------------
(* SPSC ring: core/ring_buffer.h *)

Capacity == 2 ^ RingLog2
kMask == Capacity - 1

\* x & kMask, Capacity being a power of two
Mask(x) == x % Capacity

size_unmasked(head, tail) == head - tail

\* size(): (head - tail) & kMask, the difference taken in size_t
size(head, tail) == Mask(head - tail + Capacity)

\* a default-constructed ring, nobody inside
RingInit ==
    /\ buffer_ = [i \in 0..kMask |-> 0]
    /\ head_ = 0
    /\ tail_ = 0
    /\ prodPc = "idle"
    /\ prodHead = 0
    /\ prodNext = 0
    /\ prodCalls = 0
    /\ consPc = "idle"
    /\ consTail = 0
    /\ consItem = 0
    /\ headStores = 0
    /\ tailStores = 0
    /\ prodSeenTail = 0
    /\ consSeenHead = 0
    /\ slotLive = [i \in 0..kMask |-> FALSE]
    /\ overwritten = FALSE
    /\ pushOk = <<>>
    /\ pushFail = {}
    /\ ringPopLog = <<>>

-----------------------------------------------------------------------------
(* Viewer connection: net/client.h, net/client.cpp *)

\* a default-constructed StreamConfig, as far as the handshake fills it
DefaultConfig == [params |-> <<>>, codec_data |-> <<>>]

\* a constructed Client whose socket is valid or not
ConnInit(ok) ==
    /\ state_ = "Disconnected"
    /\ socketOk = ok
    /\ viewerConfig = DefaultConfig
    /\ connPc = "idle"
    /\ connRet = "none"
    /\ connFirst = <<>>
    /\ connCalls = 0
    /\ viewerSent = <<>>

\* the viewer while another part of the program is looked at
ConnIdle == ConnInit(TRUE)

-----------------------------------------------------------------------------
(* Host: net/server.h, net/server.cpp *)

Endpoints == {"v1", "v2"}

\* the fields of a WelcomePayload, as the host packs them
WelcomeParams == <<1>> \o Zeros(WelcomePayloadSize - 1)

\* the host's stream configuration: the WELCOME fields, and the encoder's
\* extradata, which an encoder may leave empty
HostConfigs == {[params |-> WelcomeParams, codec_data |-> cd] : cd \in {<<>>, <<1>>}}

\* Server::KeyframeCache as constructed
NoKeyframe == [frame_id |-> 0, fragments |-> <<>>]

\* no poll() yet
NoPoll == [rcv |-> <<>>, before |-> <<>>, kf |-> NoKeyframe, t |-> 0, pings |-> <<>>,
           replies |-> <<>>]

\* a constructed and started Server with the stream configuration cfg
HostInit(cfg) ==
    /\ clients_ = <<>>
    /\ sequence_ = 0
    /\ hostConfig = cfg
    /\ last_keyframe_ = NoKeyframe
    /\ hostNow = 0
    /\ last_ping_time_ = 0
    /\ silent = {}
    /\ hostOut = <<>>
    /\ lastPoll = NoPoll

\* the host while another part of the program is looked at
HostIdle == HostInit([params |-> WelcomeParams, codec_data |-> <<1>>])

-----------------------------------------------------------------------------
(* The network between the host and one viewer *)

\* nothing on its way, nothing sent, the viewer has not polled
NetInit(stray) ==
    /\ toViewer = stray
    /\ toHost = {}
    /\ netSeq = 0
    /\ bcastCount = 0
    /\ nackLog = <<>>
    /\ fedLog = <<>>
    /\ emitEids = <<>>
    /\ lastViewerPoll = [t |-> 0, rcv |-> <<>>]

\* the network while another part of the program is looked at
NetIdle == NetInit({})

-----------------------------------------------------------------------------
(* Initial values of the variables of the host's upstream audio, the host's
   mutexes, the sessions, the viewer's decode loop and the fragmenter and
   reassembler under test *)

\* an empty std::unordered_map
EmptyMap == [k \in {} |-> TRUE]

\* Server's members after construction: the reassembler is empty
UpIdle ==
    /\ client_audio_assembler_ = EmptyMap
    /\ clientAudioCalls = <<>>
    /\ upstreamLog = <<>>

\* the threads that call into Server: poll(), broadcast(), and
\* client_count() / max_rtt_ms()
LockThreads == {"poll", "send", "stats"}

\* both mutexes free, every thread outside Server's functions
LockIdle ==
    /\ clients_mutex_ = "free"
    /\ keyframe_mutex_ = "free"
    /\ lockPc = [t \in LockThreads |-> "idle"]
    /\ lockLeft = [t \in LockThreads |-> 0]

\* a session of kind k that has spawned the threads js and has not been stopped
StopInit(k, js) ==
    /\ session = k
    /\ joinable = js
    /\ stopPc = 0
    /\ stopLog = <<>>
    /\ threadState = [t \in js |-> "running"]

StopIdle == StopInit("host", {})

\* run() has sent its KEYFRAME_REQ; nothing has been received yet
DecInit ==
    /\ video_queue_ = <<>>
    /\ decoded_queue_ = <<>>
    /\ keyframeReqs = 1
    /\ decodeLog = <<>>

\* fragment() not called yet
NotCalled == [called |-> FALSE, aborted |-> FALSE, fragments |-> <<>>]

TestInit(fs) ==
    /\ fragResult = NotCalled
    /\ frames = fs
    /\ feedResults = <<>>
    /\ purgeLog = <<>>

TestIdle == TestInit(<<>>)

WireIdle == wireIn = <<>> /\ wireBytes = <<>> /\ wireOut = <<>> /\ lastRaw = <<>>

\* no call yet
NoRet == [op |-> "none", ret |-> <<>>, front |-> <<>>, how |-> "none"]

RetIdle == queueRet = NoRet

ShakeIdle == lastShake = <<>>

\* VideoEncoder after init(w, h, fps, bitrate) has succeeded
EncoderAt(bitrate) == [bitrate_ |-> bitrate, initialized_ |-> TRUE, force_keyframe_ |-> FALSE]

\* no check_adaptive_bitrate past the gate yet
NoAbr == [n |-> 0, peers |-> 0, rtt |-> 0, desired |-> 0, before |-> 0, called |-> FALSE,
          inits |-> 0, ok |-> FALSE, kfreq |-> FALSE]

\* HostSession::start(port, fps, bitrate, ...) has returned true
RateInit(bitrate) ==
    /\ target_bitrate_ = bitrate
    /\ current_bitrate_ = bitrate
    /\ last_bitrate_check_ = 0
    /\ rateNow = 0
    /\ encoder_ = EncoderAt(bitrate)
    /\ lastAbr = NoAbr

\* the default of host_session.h
DefaultBitrate == 6000000

RateIdle == RateInit(DefaultBitrate)

\* neither thread is inside its function, nothing was broadcast
CacheIdle ==
    /\ bcast = [pc |-> "idle", packet |-> <<>>, fragments |-> <<>>]
    /\ nack = [pc |-> "idle", pkt |-> <<>>, i |-> 0, offset |-> 0, resent |-> <<>>, n |-> 0]
    /\ kfBroadcast = <<>>
    /\ nackDone = <<>>

\* the render loop is at its top, nothing was decoded, popped or rendered
NoRender == [pc |-> "top", frame |-> <<>>, popped |-> <<>>, rendered |-> <<>>,
             skipped |-> {}, decoded |-> 0]

RenderIdle == render = NoRender

\* running_ is true
NoLoops == [running |-> TRUE]

LoopsIdle == loops = NoLoops

\* neither thread is at a sequence_++, no number was given out
NoSeqRace == [pc |-> [send |-> "done", poll |-> "done"], tmp |-> [send |-> 0, poll |-> 0],
              left |-> [send |-> 0, poll |-> 0], out |-> <<>>, start |-> 0]

SeqRaceIdle == seqRace = NoSeqRace

\* the send thread is outside broadcast(), nothing was broadcast
NoBloop == [pc |-> "idle", fragments |-> <<>>, peers |-> <<>>, ci |-> 1, fi |-> 1,
            sent |-> <<>>, calls |-> <<>>, shakes |-> 0]

BloopIdle == bloop = NoBloop

\* nothing on its way, nothing lost, no connect() has failed
NoRecover == [toHost |-> <<>>, toViewer |-> <<>>, lost |-> 0, failed |-> FALSE]

RecoverIdle == recover = NoRecover

\* both rings empty, the encoder's next frame opens a GOP, no request yet
NoKfpipe == [raw |-> 0, encoded |-> <<>>, gop |-> 0, requests |-> 0, owed |-> FALSE,
             forced |-> 0, last |-> "none"]

KfpipeIdle == kfpipe = NoKfpipe

MoreButLastIdle == WireIdle /\ RetIdle /\ ShakeIdle /\ RateIdle /\ CacheIdle

LastIdle == RenderIdle /\ LoopsIdle /\ SeqRaceIdle /\ BloopIdle /\ RecoverIdle /\ KfpipeIdle
\* all of these but one
RenderElseIdle == MoreButLastIdle /\ LoopsIdle /\ SeqRaceIdle /\ BloopIdle /\ RecoverIdle /\ KfpipeIdle
LoopsElseIdle == MoreButLastIdle /\ RenderIdle /\ SeqRaceIdle /\ BloopIdle /\ RecoverIdle /\ KfpipeIdle
SeqRaceElseIdle == MoreButLastIdle /\ RenderIdle /\ LoopsIdle /\ BloopIdle /\ RecoverIdle /\ KfpipeIdle
BloopElseIdle == MoreButLastIdle /\ RenderIdle /\ LoopsIdle /\ SeqRaceIdle /\ RecoverIdle /\ KfpipeIdle
RecoverElseIdle == MoreButLastIdle /\ RenderIdle /\ LoopsIdle /\ SeqRaceIdle /\ BloopIdle /\ KfpipeIdle
KfpipeElseIdle == MoreButLastIdle /\ RenderIdle /\ LoopsIdle /\ SeqRaceIdle /\ BloopIdle /\ RecoverIdle

MoreIdle == MoreButLastIdle /\ LastIdle
\* the same without one of them
WireElseIdle == RetIdle /\ ShakeIdle /\ RateIdle /\ CacheIdle /\ LastIdle
RetElseIdle == WireIdle /\ ShakeIdle /\ RateIdle /\ CacheIdle /\ LastIdle
ShakeElseIdle == WireIdle /\ RetIdle /\ RateIdle /\ CacheIdle /\ LastIdle
RateElseIdle == WireIdle /\ RetIdle /\ ShakeIdle /\ CacheIdle /\ LastIdle
CacheElseIdle == WireIdle /\ RetIdle /\ ShakeIdle /\ RateIdle /\ LastIdle

ExtIdle == UpIdle /\ LockIdle /\ StopIdle /\ DecInit /\ TestIdle /\ MoreIdle

-----------------------------------------------------------------------------
(* Initial values of the reassembler's variables *)

AsmInit ==
    /\ pending_ = EmptyMap
    /\ now = 0
    /\ feedLog = <<>>
    /\ emitLog = <<>>
    /\ reportLog = <<>>
    /\ checkCalls = 0
    /\ nextEid = 0

FrameTypes == {"VideoKeyframe", "VideoPFrame", "Audio"}

\* feed() on the model's reassembler: the entry created, if any, is numbered
FeedStep(packet) ==
    LET r == feed(pending_, packet, now, nextEid)
    IN /\ pending_' = r.pending
       /\ emitLog' = emitLog \o r.result
       /\ nextEid' = IF \/ FrameKey(packet.header) \in DOMAIN pending_
                        \/ ~is_valid(packet.header)
                        \/ packet.header.frag_total = 0
                     THEN nextEid ELSE nextEid + 1

-----------------------------------------------------------------------------
(* Round trip: the fragments of one packet fed to a fresh reassembler in any
   order, with repetitions (tests/test_packet_roundtrip.cpp) *)

\* the packets of the round trip: non-empty data within the 8-bit fragment count
RoundTripPackets ==
    {[data |-> d, type |-> ty, pts_us |-> 3, frame_id |-> 7] :
        d \in {x \in SeqsUpTo(Byte, MaxDataLen) :
                  Len(x) > 0 /\ Len(x) <= (FRAG_MOD - 1) * MAX_FRAGMENT_DATA},
        ty \in FrameTypes}

RoundTripInit == AsmInit /\ QueueIdle /\ RingInit /\ ConnIdle /\ HostIdle /\ NetIdle /\ ExtIdle /\ srcPacket \in RoundTripPackets

\* assembler.feed(fragments[i]) for any i
RoundTripFeed ==
    \E i \in 1..Len(fragment(srcPacket, 0)) :
        /\ Len(feedLog) < MaxFeeds
        /\ FeedStep(fragment(srcPacket, 0)[i])
        /\ feedLog' = Append(feedLog, i - 1)
        /\ UNCHANGED <<now, srcPacket, reportLog, checkCalls, nonAsmVars>>

RoundTripNext == RoundTripFeed

SpecRoundTrip == RoundTripInit /\ [][RoundTripNext]_vars

\* every fragment of the packet has been fed at least once
AllFragmentsFed ==
    \A i \in 1..Len(fragment(srcPacket, 0)) :
        \E j \in 1..Len(feedLog) : feedLog[j] = i - 1

\* C1: once every fragment of fragment(P) has been fed to the fresh reassembler,
\* in any order and with any repetitions anywhere, feed() has returned a packet
\* exactly once, and that packet has P's data, frame_id and type.
C1_RoundTripExactlyOnce ==
    AllFragmentsFed =>
        /\ Len(emitLog) = 1
        /\ emitLog[1].data = srcPacket.data
        /\ emitLog[1].frame_id = srcPacket.frame_id
        /\ emitLog[1].type = srcPacket.type

-----------------------------------------------------------------------------
(* The reassembler on its own: feed, check_incomplete_keyframes and
   purge_stale called in any order while time passes
   (tests/test_phase5_protocol.cpp) *)

\* a keyframe of three fragments and a P-frame of two with the keyframe's
\* frame_id
AsmKeyframe == [data |-> <<0, 1, 0, 1, 1>>, type |-> "VideoKeyframe", pts_us |-> 3, frame_id |-> 7]

\* the reassembler while another part of the program is looked at
AsmIdle == AsmInit /\ srcPacket = AsmKeyframe

AsmPFrame == [data |-> <<1, 1, 0>>, type |-> "VideoPFrame", pts_us |-> 4, frame_id |-> 7]

SeqRange(s) == {s[i] : i \in 1..Len(s)}

\* the packets fed to the reassembler
AsmPackets ==
    SeqRange(fragment(AsmKeyframe, 0)) \cup SeqRange(fragment(AsmPFrame, 0))

\* the age thresholds and timeouts the calls are made with
CheckAges == {0, NACK_AGE_MS}
PurgeTimeouts == {0, PURGE_TIMEOUT_MS}
\* the clock's steps, in ms
TickSteps == {100}

\* the orders in which a std::vector can hold the elements of S
Orderings(S) ==
    {s \in [1..Cardinality(S) -> S] : \A i, j \in 1..Cardinality(S) : i # j => s[i] # s[j]}

SpecAsmInit == AsmInit /\ QueueIdle /\ RingInit /\ ConnIdle /\ HostIdle /\ NetIdle /\ ExtIdle /\ srcPacket = AsmKeyframe

\* assembler.feed(packet)
AsmFeed ==
    \E packet \in AsmPackets :
        /\ FrameKey(packet.header) \notin DOMAIN pending_ => nextEid < MaxEntries
        /\ FeedStep(packet)
        /\ UNCHANGED <<now, srcPacket, feedLog, reportLog, checkCalls, nonAsmVars>>

\* assembler.check_incomplete_keyframes(age_ms)
AsmCheck ==
    \E age_ms \in CheckAges :
        LET r == check_incomplete_keyframes(pending_, age_ms, now)
        IN /\ checkCalls < MaxChecks
           /\ pending_' = r.pending
           /\ checkCalls' = checkCalls + 1
           /\ \E order \in Orderings(r.result) :
                 reportLog' = reportLog \o
                     [i \in 1..Len(order) |->
                         [eid |-> order[i].eid, age |-> order[i].age,
                          threshold |-> age_ms, call |-> checkCalls + 1,
                          missing |-> order[i].missing_indices]]
           /\ UNCHANGED <<now, srcPacket, feedLog, emitLog, nextEid, nonAsmVars>>

\* assembler.purge_stale(timeout_ms)
AsmPurge ==
    \E timeout_ms \in PurgeTimeouts :
        /\ pending_' = purge_stale(pending_, timeout_ms, now)
        /\ UNCHANGED <<now, srcPacket, feedLog, emitLog, reportLog, checkCalls, nextEid, nonAsmVars>>

\* time passes
AsmTick ==
    \E d \in TickSteps :
        /\ now + d <= MaxNow
        /\ now' = now + d
        /\ UNCHANGED <<pending_, srcPacket, feedLog, emitLog, reportLog, checkCalls, nextEid, nonAsmVars>>

AsmNext == AsmFeed \/ AsmCheck \/ AsmPurge \/ AsmTick

SpecAsm == SpecAsmInit /\ [][AsmNext]_vars

\* C4: check_incomplete_keyframes reports a reassembly entry at most once
\* between its creation and its removal; what it reports is at least as old
\* as the threshold of the call, and only a reported entry is marked nack_sent.
C4_ReportedAtMostOnce ==
    /\ \A i, j \in 1..Len(reportLog) :
          i # j => reportLog[i].eid # reportLog[j].eid
    /\ \A i \in 1..Len(reportLog) : reportLog[i].age >= reportLog[i].threshold
    /\ \A k \in DOMAIN pending_ :
          pending_[k].nack_sent =>
              \E i \in 1..Len(reportLog) : reportLog[i].eid = pending_[k].eid

\* a reported entry that is still pending after a further fragment of its frame
\* was fed and check_incomplete_keyframes was called again, and an entry too
\* young for the last call beside it
C4_Witness ==
    \E k \in DOMAIN pending_ : \E i \in 1..Len(reportLog) :
        /\ reportLog[i].eid = pending_[k].eid
        /\ checkCalls > reportLog[i].call
        /\ Len(MissingIndices(pending_[k])) < Len(reportLog[i].missing)
        /\ Len(MissingIndices(pending_[k])) > 0
        /\ now - pending_[k].created >= NACK_AGE_MS

-----------------------------------------------------------------------------
(* MPSC queue: the operations *)

\* push(): if (max_size_ > 0 && queue_.size() >= max_size_)
IsFull(q, max_size) == max_size > 0 /\ Len(q) >= max_size

\* a queue that drops its newest item instead
DropNewest(q) == SubSeq(q, 1, Len(q) - 1)

\* push(): queue_.pop(), drop oldest
DropOldest(q) == Tail(q)

\* push(): queue_.push(std::move(item))
Enqueue(q, item) == Append(q, item)

\* a predicate that does not look at closed_
WaitPredNotClosed == queue_ # <<>>

\* the predicate of wait_pop's cv_.wait_for
WaitPred == queue_ # <<>> \/ closed_

\* std::lock_guard lock(mutex_) of push()
PushLock(p) ==
    /\ ppc[p] = "idle"
    /\ pcount[p] < MaxPush
    /\ mutex_ = "free"
    /\ mutex_' = p
    /\ ppc' = [ppc EXCEPT ![p] = "locked"]
    /\ UNCHANGED <<queue_, closed_, max_size_, pcount, cpc, clpc, pushLog, removeLog, popLog>>

\* push(): the eviction, under the lock
PushEvict(p) ==
    /\ ppc[p] = "locked"
    /\ ppc' = [ppc EXCEPT ![p] = "enqueue"]
    /\ IF IsFull(queue_, max_size_)
           THEN /\ queue_' = DropOldest(queue_)
                /\ removeLog' = Append(removeLog,
                                    [item |-> Head(queue_), how |-> "evict", size |-> Len(queue_)])
           ELSE UNCHANGED <<queue_, removeLog>>
    /\ UNCHANGED <<closed_, max_size_, mutex_, pcount, cpc, clpc, pushLog, popLog>>

\* push(): the enqueue, and the end of the lock's scope
PushEnqueue(p) ==
    /\ ppc[p] = "enqueue"
    /\ queue_' = Enqueue(queue_, <<p, pcount[p] + 1>>)
    /\ pushLog' = Append(pushLog, <<p, pcount[p] + 1>>)
    /\ pcount' = [pcount EXCEPT ![p] = @ + 1]
    /\ mutex_' = "free"
    /\ ppc' = [ppc EXCEPT ![p] = "notify"]
    /\ UNCHANGED <<closed_, max_size_, cpc, clpc, removeLog, popLog>>

\* cv_.notify_one() / notify_all(): the one consumer, if it waits, wakes
Notified(c) == IF c = "waiting" THEN "woken" ELSE c

\* push(): cv_.notify_one()
PushNotify(p) ==
    /\ ppc[p] = "notify"
    /\ ppc' = [ppc EXCEPT ![p] = "idle"]
    /\ cpc' = Notified(cpc)
    /\ UNCHANGED <<queue_, closed_, max_size_, mutex_, pcount, clpc, pushLog, removeLog, popLog>>

\* the front item leaves the queue and is returned; on an empty queue
\* std::nullopt is returned
PopFront ==
    IF queue_ = <<>> THEN UNCHANGED <<queue_, removeLog, popLog>>
    ELSE /\ queue_' = Tail(queue_)
         /\ removeLog' = Append(removeLog,
                             [item |-> Head(queue_), how |-> "pop", size |-> Len(queue_)])
         /\ popLog' = Append(popLog, Head(queue_))

\* try_pop(), the whole of it under the lock
TryPop ==
    /\ cpc = "idle"
    /\ mutex_ = "free"
    /\ PopFront
    /\ UNCHANGED <<closed_, max_size_, mutex_, ppc, pcount, cpc, clpc, pushLog>>

\* wait_pop(): the lock is taken and the predicate looked at: the consumer
\* blocks when it is false, and otherwise returns the front item or nullopt
WaitPopEnter ==
    /\ cpc = "idle"
    /\ mutex_ = "free"
    /\ IF WaitPred THEN PopFront /\ UNCHANGED cpc
       ELSE cpc' = "waiting" /\ UNCHANGED <<queue_, removeLog, popLog>>
    /\ UNCHANGED <<closed_, max_size_, mutex_, ppc, pcount, clpc, pushLog>>

\* wait_pop(): a notified consumer takes the lock again and looks at the
\* predicate
WaitPopWake ==
    /\ cpc = "woken"
    /\ mutex_ = "free"
    /\ IF WaitPred THEN PopFront /\ cpc' = "idle"
       ELSE cpc' = "waiting" /\ UNCHANGED <<queue_, removeLog, popLog>>
    /\ UNCHANGED <<closed_, max_size_, mutex_, ppc, pcount, clpc, pushLog>>

\* wait_pop(): the timeout expires, wait_for returns the predicate's value
WaitPopTimeout ==
    /\ cpc \in {"waiting", "woken"}
    /\ mutex_ = "free"
    /\ cpc' = "idle"
    /\ PopFront
    /\ UNCHANGED <<closed_, max_size_, mutex_, ppc, pcount, clpc, pushLog>>

\* close(): closed_ = true under the lock
CloseLocked ==
    /\ clpc = "idle"
    /\ mutex_ = "free"
    /\ closed_' = TRUE
    /\ clpc' = "notify"
    /\ UNCHANGED <<queue_, max_size_, mutex_, ppc, pcount, cpc, pushLog, removeLog, popLog>>

\* close(): cv_.notify_all(), after which close() has returned
CloseNotify ==
    /\ clpc = "notify"
    /\ clpc' = "done"
    /\ cpc' = Notified(cpc)
    /\ UNCHANGED <<queue_, closed_, max_size_, mutex_, ppc, pcount, pushLog, removeLog, popLog>>

SpecQueueInit == AsmIdle /\ RingInit /\ ConnIdle /\ HostIdle /\ NetIdle /\ ExtIdle /\ \E c \in 0..MaxCap : QueueInit(c)

QueueNext ==
    \/ \E p \in Producers : PushLock(p) /\ UNCHANGED nonQueueVars
    \/ \E p \in Producers : PushEvict(p) /\ UNCHANGED nonQueueVars
    \/ \E p \in Producers : PushEnqueue(p) /\ UNCHANGED nonQueueVars
    \/ \E p \in Producers : PushNotify(p) /\ UNCHANGED nonQueueVars
    \/ TryPop /\ UNCHANGED nonQueueVars
    \/ WaitPopEnter /\ UNCHANGED nonQueueVars
    \/ WaitPopWake /\ UNCHANGED nonQueueVars
    \/ WaitPopTimeout /\ UNCHANGED nonQueueVars
    \/ CloseLocked /\ UNCHANGED nonQueueVars
    \/ CloseNotify /\ UNCHANGED nonQueueVars

SpecQueue == SpecQueueInit /\ [][QueueNext]_vars

\* q is what is left of r after items were taken from its front
IsSuffix(q, r) ==
    /\ Len(q) <= Len(r)
    /\ \A i \in 1..Len(q) : q[i] = r[Len(r) - Len(q) + i]

\* C5: once close() has returned the queue accepts no new item: every step
\* leaves the queue's contents a suffix of what they were.
C5_ClosedAcceptsNothing ==
    [][clpc = "done" => IsSuffix(queue_', queue_)]_vars

ItemsOf(log) == [i \in 1..Len(log) |-> log[i].item]
IsPop(r) == r.how = "pop"
IsEvict(r) == r.how = "evict"

\* C6: a queue of capacity c > 0 never holds more than c items; an eviction
\* happens only on a full queue and takes the oldest item; the items taken out
\* (popped or evicted), followed by the queue's contents, are the pushed items
\* in the order of the lock; the popped items are those in that order with
\* only the evicted ones missing.
C6_BoundedFifoDropOldest ==
    max_size_ > 0 =>
        /\ Len(queue_) <= max_size_
        /\ ItemsOf(removeLog) \o queue_ = pushLog
        /\ \A i \in 1..Len(removeLog) :
              IsEvict(removeLog[i]) => removeLog[i].size = max_size_
        /\ popLog = ItemsOf(SelectSeq(removeLog, IsPop))
        /\ \A i, j \in 1..Len(pushLog) : i # j => pushLog[i] # pushLog[j]

\* both producers have pushed, an item was evicted from the full queue and a
\* later item was popped
C6_Witness ==
    /\ max_size_ > 0
    /\ \E i, j \in 1..Len(removeLog) :
          i < j /\ IsEvict(removeLog[i]) /\ IsPop(removeLog[j])
    /\ \A p \in Producers : pcount[p] > 0

-----------------------------------------------------------------------------
(* SPSC ring: the operations, one step per load and store. head_ and tail_
   have one writer each; a thread reads its own index as it last stored it,
   and an acquire load of the other thread's index returns the value of any
   store not older than the one it read from before. *)

\* try_push: if (next == tail_.load(acquire)) return false
RingAlwaysRoom(next, tail) == FALSE

RingFull(next, tail) == next = tail

\* try_pop: if (tail == head_.load(acquire)) return std::nullopt
RingEmpty(tail, head) == tail = head

\* try_push: head = head_.load(relaxed); next = (head + 1) & kMask
PushLoadHead ==
    /\ prodPc = "idle"
    /\ prodCalls < MaxRingCalls
    /\ prodCalls' = prodCalls + 1
    /\ prodHead' = head_
    /\ prodNext' = Mask(head_ + 1)
    /\ prodPc' = "loadTail"
    /\ UNCHANGED <<buffer_, head_, tail_, consPc, consTail, consItem, headStores, tailStores,
                   prodSeenTail, consSeenHead, slotLive, overwritten, pushOk, pushFail,
                   ringPopLog>>

\* try_push: tail_.load(acquire) and the test for a full ring
PushLoadTail ==
    /\ prodPc = "loadTail"
    /\ \E k \in prodSeenTail..tailStores :
          /\ prodSeenTail' = k
          /\ IF RingFull(prodNext, Mask(k))
                 THEN prodPc' = "idle" /\ pushFail' = pushFail \cup {prodCalls}
                 ELSE prodPc' = "write" /\ UNCHANGED pushFail
    /\ UNCHANGED <<buffer_, head_, tail_, prodHead, prodNext, prodCalls, consPc, consTail,
                   consItem, headStores, tailStores, consSeenHead, slotLive, overwritten,
                   pushOk, ringPopLog>>

\* try_push: buffer_[head] = std::move(item)
PushWriteSlot ==
    /\ prodPc = "write"
    /\ buffer_' = [buffer_ EXCEPT ![prodHead] = prodCalls]
    /\ slotLive' = [slotLive EXCEPT ![prodHead] = TRUE]
    /\ overwritten' = (overwritten \/ slotLive[prodHead])
    /\ prodPc' = "storeHead"
    /\ UNCHANGED <<head_, tail_, prodHead, prodNext, prodCalls, consPc, consTail, consItem,
                   headStores, tailStores, prodSeenTail, consSeenHead, pushOk, pushFail,
                   ringPopLog>>

\* try_push: head_.store(next, release); return true
PushStoreHead ==
    /\ prodPc = "storeHead"
    /\ head_' = prodNext
    /\ headStores' = headStores + 1
    /\ pushOk' = Append(pushOk, prodCalls)
    /\ prodPc' = "idle"
    /\ UNCHANGED <<buffer_, tail_, prodHead, prodNext, prodCalls, consPc, consTail, consItem,
                   tailStores, prodSeenTail, consSeenHead, slotLive, overwritten, pushFail,
                   ringPopLog>>

\* try_pop: tail = tail_.load(relaxed)
PopLoadTail ==
    /\ consPc = "idle"
    /\ consTail' = tail_
    /\ consPc' = "loadHead"
    /\ UNCHANGED <<buffer_, head_, tail_, prodPc, prodHead, prodNext, prodCalls, consItem,
                   headStores, tailStores, prodSeenTail, consSeenHead, slotLive, overwritten,
                   pushOk, pushFail, ringPopLog>>

\* try_pop: head_.load(acquire) and the test for an empty ring
PopLoadHead ==
    /\ consPc = "loadHead"
    /\ \E k \in consSeenHead..headStores :
          /\ consSeenHead' = k
          /\ consPc' = IF RingEmpty(consTail, Mask(k)) THEN "idle" ELSE "read"
    /\ UNCHANGED <<buffer_, head_, tail_, prodPc, prodHead, prodNext, prodCalls, consTail,
                   consItem, headStores, tailStores, prodSeenTail, slotLive, overwritten,
                   pushOk, pushFail, ringPopLog>>

\* try_pop: T item = std::move(buffer_[tail])
PopReadSlot ==
    /\ consPc = "read"
    /\ consItem' = buffer_[consTail]
    /\ slotLive' = [slotLive EXCEPT ![consTail] = FALSE]
    /\ consPc' = "storeTail"
    /\ UNCHANGED <<buffer_, head_, tail_, prodPc, prodHead, prodNext, prodCalls, consTail,
                   headStores, tailStores, prodSeenTail, consSeenHead, overwritten, pushOk,
                   pushFail, ringPopLog>>

\* try_pop: tail_.store((tail + 1) & kMask, release); return item
PopStoreTail ==
    /\ consPc = "storeTail"
    /\ tail_' = Mask(consTail + 1)
    /\ tailStores' = tailStores + 1
    /\ ringPopLog' = Append(ringPopLog, consItem)
    /\ consPc' = "idle"
    /\ UNCHANGED <<buffer_, head_, prodPc, prodHead, prodNext, prodCalls, consTail, consItem,
                   headStores, prodSeenTail, consSeenHead, slotLive, overwritten, pushOk,
                   pushFail>>

SpecRingInit == AsmIdle /\ QueueIdle /\ RingInit /\ ConnIdle /\ HostIdle /\ NetIdle /\ ExtIdle

RingNext ==
    \/ PushLoadHead /\ UNCHANGED nonRingVars
    \/ PushLoadTail /\ UNCHANGED nonRingVars
    \/ PushWriteSlot /\ UNCHANGED nonRingVars
    \/ PushStoreHead /\ UNCHANGED nonRingVars
    \/ PopLoadTail /\ UNCHANGED nonRingVars
    \/ PopLoadHead /\ UNCHANGED nonRingVars
    \/ PopReadSlot /\ UNCHANGED nonRingVars
    \/ PopStoreTail /\ UNCHANGED nonRingVars

SpecRing == SpecRingInit /\ [][RingNext]_vars

\* C7: at every point of every interleaving of the loads and stores of one
\* producer and one consumer, the values try_pop has returned are the first of
\* the values whose try_push returned true, in push order and each once, and
\* they are all of them once both threads are out of their calls and the ring
\* is empty; no value whose try_push returned false is returned; no slot is
\* written while it holds a value that was not consumed, nor while it is read.
C7_SpscFifo ==
    /\ Len(ringPopLog) <= Len(pushOk)
    /\ \A i \in 1..Len(ringPopLog) : ringPopLog[i] = pushOk[i]
    /\ \A i, j \in 1..Len(pushOk) : i # j => pushOk[i] # pushOk[j]
    /\ (prodPc = "idle" /\ consPc = "idle" /\ head_ = tail_) => ringPopLog = pushOk
    /\ \A i \in 1..Len(ringPopLog) : ringPopLog[i] \notin pushFail
    /\ ~overwritten
    /\ ~(prodPc = "write" /\ consPc = "read" /\ prodHead = consTail)

\* the ring was full for one try_push, the indices have wrapped around, and
\* the consumer has popped a value pushed after the rejected one
C7_Witness ==
    /\ pushFail # {}
    /\ headStores > Capacity
    /\ \E i \in 1..Len(ringPopLog) : \E v \in pushFail : ringPopLog[i] > v

-----------------------------------------------------------------------------
(* Viewer connection: connect() and disconnect() *)

\* what recv_from gives connect(): nothing within the timeout (std::nullopt),
\* or a datagram as Packet::deserialize reads it (a datagram shorter than a
\* header reads as the default header, whose magic is 0)
Timeout == <<>>

ConnDatagrams ==
    { [header |-> [magic |-> m, version |-> v, type |-> t], payload |-> pl] :
          m \in {PROTOCOL_MAGIC, 0}, v \in {PROTOCOL_VERSION, 2},
          t \in {WELCOME, STREAM_CONFIG, VIDEO_DATA},
          pl \in {<<>>, <<1>>, WelcomeParams} }

RecvResults == {Timeout} \cup {<<d>> : d \in ConnDatagrams}

\* a connect() that takes whatever datagram comes first for the WELCOME
IsAnyDatagram(pkt) == TRUE

\* connect(): the test of the first datagram
IsWelcome(pkt) == is_valid(pkt.header) /\ pkt.header.type = WELCOME

\* connect(): the test of the second datagram
IsStreamConfig(pkt) == is_valid(pkt.header) /\ pkt.header.type = STREAM_CONFIG

\* connect() up to the HELLO; with an invalid socket it returns false at once
ConnectCall ==
    /\ connPc = "idle"
    /\ connCalls < MaxConnects
    /\ connCalls' = connCalls + 1
    /\ IF ~socketOk
           THEN /\ connRet' = "false"
                /\ UNCHANGED <<state_, connPc, connFirst, viewerSent>>
           ELSE /\ state_' = "Connecting"
                /\ viewerSent' = Append(viewerSent, HELLO)
                /\ connPc' = "recvWelcome"
                /\ connRet' = "none"
                /\ connFirst' = <<>>
    /\ UNCHANGED <<socketOk, viewerConfig>>

\* connect(): the wait for the WELCOME
ConnectRecvWelcome ==
    /\ connPc = "recvWelcome"
    /\ \E r \in RecvResults :
          /\ connFirst' = <<r>>
          /\ IF r = Timeout \/ ~IsWelcome(r[1])
                 THEN /\ state_' = "Disconnected"
                      /\ connRet' = "false"
                      /\ connPc' = "idle"
                      /\ UNCHANGED viewerConfig
                 ELSE /\ connPc' = "recvConfig"
                      /\ viewerConfig' =
                             IF Len(r[1].payload) >= WelcomePayloadSize
                                 THEN [viewerConfig EXCEPT
                                          !.params = SubSeq(r[1].payload, 1, WelcomePayloadSize)]
                                 ELSE viewerConfig
                      /\ UNCHANGED <<state_, connRet>>
    /\ UNCHANGED <<socketOk, connCalls, viewerSent>>

\* connect(): the wait for the STREAM_CONFIG, which may not come
ConnectRecvConfig ==
    /\ connPc = "recvConfig"
    /\ \E r \in RecvResults :
          viewerConfig' =
              IF r # Timeout /\ IsStreamConfig(r[1])
                  THEN [viewerConfig EXCEPT !.codec_data = r[1].payload]
                  ELSE viewerConfig
    /\ state_' = "Connected"
    /\ connRet' = "true"
    /\ connPc' = "idle"
    /\ UNCHANGED <<socketOk, connFirst, connCalls, viewerSent>>

\* disconnect()
Disconnect ==
    /\ connPc = "idle"
    /\ state_ # "Disconnected"
    /\ viewerSent' = Append(viewerSent, BYE)
    /\ state_' = "Disconnected"
    /\ connRet' = "none"
    /\ UNCHANGED <<socketOk, viewerConfig, connPc, connFirst, connCalls>>

SpecConnectInit == AsmIdle /\ QueueIdle /\ RingInit /\ HostIdle /\ NetIdle /\ ExtIdle /\ \E ok \in BOOLEAN : ConnInit(ok)

ConnectNext ==
    \/ ConnectCall /\ UNCHANGED nonConnVars
    \/ ConnectRecvWelcome /\ UNCHANGED nonConnVars
    \/ ConnectRecvConfig /\ UNCHANGED nonConnVars
    \/ Disconnect /\ UNCHANGED nonConnVars

SpecConnect == SpecConnectInit /\ [][ConnectNext]_vars

\* the first recv_from of the last connect() gave a valid WELCOME
FirstWasWelcome ==
    /\ connFirst # <<>>
    /\ connFirst[1] # Timeout
    /\ connFirst[1][1].header.magic = PROTOCOL_MAGIC
    /\ connFirst[1][1].header.version = PROTOCOL_VERSION
    /\ connFirst[1][1].header.type = WELCOME

\* C9: once connect() has returned the state is not Connecting; after a
\* connect() that returned false the state is Disconnected, and with a valid
\* socket its first recv_from timed out or gave something other than a valid
\* WELCOME; after a connect() that returned true the state is Connected; and
\* whenever the state is Connected the first datagram of the last connect() was
\* a valid WELCOME.
C9_ConnectOutcome ==
    /\ connPc = "idle" => state_ # "Connecting"
    /\ connRet = "false" => state_ = "Disconnected"
    /\ (connRet = "false" /\ socketOk) => ~FirstWasWelcome
    /\ connRet = "true" => state_ = "Connected"
    /\ state_ = "Connected" => FirstWasWelcome

\* a first connect() succeeded and stored the codec data, and a second one
\* failed on a WELCOME of another protocol version
C9_Witness ==
    /\ connCalls = 2
    /\ connRet = "false"
    /\ viewerConfig.codec_data # <<>>
    /\ connFirst # <<>>
    /\ connFirst[1] # Timeout
    /\ connFirst[1][1].header.type = WELCOME
    /\ connFirst[1][1].header.magic = PROTOCOL_MAGIC
    /\ connFirst[1][1].header.version # PROTOCOL_VERSION

-----------------------------------------------------------------------------
(* Host: the operations. A payload is a sequence of elements; a PingPayload
   takes PingPayloadSize of them and holds timestamp_us, a NackPayload takes
   NackPayloadSize and holds frame_id and num_missing, and the missing indices
   follow it one element each. *)

\* a PingPayload holding timestamp_us
PingPayload(timestamp_us) == <<timestamp_us>> \o Zeros(PingPayloadSize - 1)

\* a NackPayload holding frame_id and num_missing
NackPayload(frame_id, num_missing) == <<frame_id, num_missing>> \o Zeros(NackPayloadSize - 2)

\* a default-constructed Packet with these header fields and this payload
ControlPacket(type, sequence, frame_id, payload) ==
    [header |-> Header(type, {}, sequence, 0, frame_id, 0, 0), payload |-> payload]

\* ClientInfo info; info.endpoint = source
NewClient(source) == [endpoint |-> source, rtt_ms |-> 0, rtt_valid |-> FALSE]

IsPeer(cl, e) == \E i \in 1..Len(cl) : cl[i].endpoint = e

\* sequence_++ on a uint16_t
NextSeq(seq) == (seq + 1) % SEQ_MOD

\* one datagram for each element of pkts, all to dest
SendAll(pkts, dest) == [i \in 1..Len(pkts) |-> [to |-> dest, pkt |-> pkts[i]]]

\* Server::send_pings
send_pings(cl, seq, t) ==
    LET ping == ControlPacket(PING, seq, 0, PingPayload(t))
    IN [out |-> [i \in 1..Len(cl) |-> [to |-> cl[i].endpoint, pkt |-> ping]],
        sequence |-> NextSeq(seq)]

\* Server::send_stream_config
send_stream_config(cfg, seq, dest) ==
    IF cfg.codec_data = <<>> THEN [out |-> <<>>, sequence |-> seq]
    ELSE [out |-> <<[to |-> dest, pkt |-> ControlPacket(STREAM_CONFIG, seq, 0, cfg.codec_data)]>>,
          sequence |-> NextSeq(seq)]

\* a handle_hello that answers every HELLO
NeverConnected(cl, source) == FALSE

\* handle_hello: for (c : clients_) if (c.endpoint == source) return
AlreadyConnected(cl, source) == \E i \in 1..Len(cl) : cl[i].endpoint = source

\* Server::handle_hello
handle_hello(cl, seq, cfg, source) ==
    IF AlreadyConnected(cl, source) THEN [clients |-> cl, sequence |-> seq, out |-> <<>>]
    ELSE LET welcome == ControlPacket(WELCOME, seq, 0, cfg.params)
             sc == send_stream_config(cfg, NextSeq(seq), source)
         IN [clients |-> Append(cl, NewClient(source)),
             sequence |-> sc.sequence,
             out |-> <<[to |-> source, pkt |-> welcome]>> \o sc.out]

\* a BYE that removes nobody
EraseNobody(cl, source) == cl

RECURSIVE EraseEndpoint(_, _)
\* poll, case BYE: std::erase_if(clients_, c.endpoint == source)
EraseEndpoint(cl, source) ==
    IF cl = <<>> THEN <<>>
    ELSE IF cl[1].endpoint = source THEN EraseEndpoint(SubSeq(cl, 2, Len(cl)), source)
    ELSE <<cl[1]>> \o EraseEndpoint(SubSeq(cl, 2, Len(cl)), source)

\* the time_points around t that handle_pong tells apart: after t, t itself,
\* and those RTT_MAX_MS before t, one ms more and one ms less
TimePointsNear(t) == {t + 1, t, t - 1, t - RTT_MAX_MS, t - (RTT_MAX_MS + 1)}

\* handle_pong: the time_points the conversion of timestamp_us can give: the
\* timestamp itself, or, past the range of the nanosecond count (signed
\* overflow), any time_point
SendTimes(timestamp_us, t) ==
    IF timestamp_us < TimestampLimit THEN {timestamp_us} ELSE TimePointsNear(t)

\* handle_pong: if (rtt < 0 || rtt > 10000) return
RttRejected(rtt) == rtt < 0 \/ rtt > RTT_MAX_MS

\* handle_pong: the first record of the source gets the round trip time
StoreRtt(cl, source, rtt) ==
    IF ~IsPeer(cl, source) THEN cl
    ELSE LET i == CHOOSE j \in 1..Len(cl) :
                      /\ cl[j].endpoint = source
                      /\ \A k \in 1..(j - 1) : cl[k].endpoint # source
         IN [cl EXCEPT ![i] = [endpoint |-> source, rtt_ms |-> rtt, rtt_valid |-> TRUE]]

\* Server::handle_pong, send_time being what the timestamp converts to
handle_pong(cl, pkt, source, t, send_time) ==
    IF Len(pkt.payload) < PingPayloadSize THEN cl
    ELSE IF RttRejected(t - send_time) THEN cl
    ELSE StoreRtt(cl, source, t - send_time)

RECURSIVE ResendFrom(_, _, _, _, _)
\* handle_nack: the loop over the indices that follow the NackPayload
ResendFrom(kf, payload, source, i, offset) ==
    IF i >= payload[2] THEN <<>>
    ELSE IF offset + 1 > Len(payload) THEN <<>>
    ELSE LET frag_idx == payload[offset + 1]
             rest == ResendFrom(kf, payload, source, i + 1, offset + 1)
         IN IF frag_idx < Len(kf.fragments)
                THEN <<[to |-> source, pkt |-> kf.fragments[frag_idx + 1]]>> \o rest
                ELSE rest

\* Server::handle_nack: the datagrams it sends
handle_nack(kf, pkt, source) ==
    IF Len(pkt.payload) < NackPayloadSize THEN <<>>
    ELSE IF pkt.payload[1] # kf.frame_id THEN <<>>
    ELSE ResendFrom(kf, pkt.payload, source, 0, NackPayloadSize)

RECURSIVE ToAll(_, _)
\* broadcast: every fragment to the first client, then to the next
ToAll(cl, fragments) ==
    IF cl = <<>> THEN <<>>
    ELSE SendAll(fragments, cl[1].endpoint) \o ToAll(SubSeq(cl, 2, Len(cl)), fragments)

\* what poll() does with what recv_from gave it, seq being sequence_ after
\* the pings: the peer table, sequence_ and the datagrams sent, one outcome
\* for each time_point a PONG's timestamp can convert to
Dispatch(r, seq) ==
    LET same == [clients |-> clients_, sequence |-> seq, out |-> <<>>]
    IN IF r = <<>> THEN {same}
       ELSE LET pkt == r[1].pkt
                source == r[1].source
                type == pkt.header.type
            IN IF ~is_valid(pkt.header) THEN {same}
               ELSE IF type = HELLO
                   THEN {handle_hello(clients_, seq, hostConfig, source)}
               ELSE IF type = BYE
                   THEN {[same EXCEPT !.clients = EraseEndpoint(clients_, source)]}
               ELSE IF type = PONG
                   THEN IF Len(pkt.payload) < PingPayloadSize THEN {same}
                        ELSE {[same EXCEPT !.clients =
                                   handle_pong(clients_, pkt, source, hostNow, send_time)] :
                                  send_time \in SendTimes(pkt.payload[1], hostNow)}
               ELSE IF type = NACK
                   THEN {[same EXCEPT !.out = handle_nack(last_keyframe_, pkt, source)]}
               ELSE {same}

\* Server::poll, r being what recv_from returns
HostPoll(r) ==
    LET pingDue == hostNow - last_ping_time_ >= PING_INTERVAL_MS
        sp == IF pingDue THEN send_pings(clients_, sequence_, hostNow)
              ELSE [out |-> <<>>, sequence |-> sequence_]
    IN /\ last_ping_time_' = IF pingDue THEN hostNow ELSE last_ping_time_
       /\ \E d \in Dispatch(r, sp.sequence) :
             /\ clients_' = d.clients
             /\ sequence_' = d.sequence
             /\ hostOut' = sp.out \o d.out
             /\ lastPoll' = [rcv |-> r, before |-> clients_, kf |-> last_keyframe_, t |-> hostNow,
                             pings |-> sp.out, replies |-> d.out]
       /\ UNCHANGED <<hostConfig, last_keyframe_, hostNow, silent>>

\* Server::broadcast
HostBroadcast(packet) ==
    LET fragments == fragment(packet, sequence_)
    IN /\ sequence_' = (sequence_ + Len(fragments)) % SEQ_MOD
       /\ last_keyframe_' =
              IF packet.type = "VideoKeyframe"
                  THEN [frame_id |-> packet.frame_id, fragments |-> fragments]
                  ELSE last_keyframe_
       /\ hostOut' = ToAll(clients_, fragments)
       /\ UNCHANGED <<clients_, hostConfig, hostNow, last_ping_time_, silent, lastPoll>>

\* the host's clock advances
HostTick ==
    /\ hostNow + HostTickMs <= MaxHostNow
    /\ hostNow' = hostNow + HostTickMs
    /\ UNCHANGED <<clients_, sequence_, hostConfig, last_keyframe_, last_ping_time_, silent,
                   hostOut, lastPoll>>

\* the epoch of steady_clock is moved: the host keeps no time_point but
\* last_ping_time_, and uses it for its distance to now only
HostClockEpoch ==
    /\ last_ping_time_ >= HostTickMs
    /\ hostNow' = hostNow - HostTickMs
    /\ last_ping_time_' = last_ping_time_ - HostTickMs
    /\ UNCHANGED <<clients_, sequence_, hostConfig, last_keyframe_, silent, hostOut, lastPoll>>

\* an endpoint stops sending, for good
GoSilent(e) ==
    /\ e \notin silent
    /\ silent' = silent \cup {e}
    /\ UNCHANGED <<clients_, sequence_, hostConfig, last_keyframe_, hostNow, last_ping_time_,
                   hostOut, lastPoll>>

\* the timestamps a PONG can carry: those of PINGs sent, times yet to come,
\* and one too large for the clock
PongTimestamps(t) == {x \in TimePointsNear(t) : x >= 0} \cup {TimestampLimit}

\* a datagram without payload
Bare(type) == ControlPacket(type, 0, 0, <<>>)

\* a HELLO whose magic is wrong
BadMagic == [header |-> [Header(HELLO, {}, 0, 0, 0, 0, 0) EXCEPT !.magic = 0], payload |-> <<>>]

\* the datagrams of the handshake, and some that poll() drops
HandshakeDatagrams == {Bare(HELLO), Bare(BYE), Bare(KEYFRAME_REQ), Bare(VIDEO_DATA), BadMagic}

\* the PONGs the host can receive at time t
PongDatagrams(t) ==
    {Bare(PONG)} \cup {ControlPacket(PONG, 0, 0, PingPayload(ts)) : ts \in PongTimestamps(t)}

\* what recv_from can return: nothing, or one of these datagrams from an
\* endpoint that still sends
HostInputs(datagrams) ==
    {<<>>} \cup {<<[source |-> e, pkt |-> p]>> : e \in Endpoints \ silent, p \in datagrams}

\* the packets the host broadcasts
HostPackets == {AsmKeyframe, AsmPFrame}

HostStart ==
    AsmIdle /\ QueueIdle /\ RingInit /\ ConnIdle /\ NetIdle /\ ExtIdle /\ \E cfg \in HostConfigs : HostInit(cfg)

-----------------------------------------------------------------------------
(* Host: the handshake and broadcasts *)

HandshakePoll ==
    \E r \in HostInputs(HandshakeDatagrams) :
        HostPoll(r) /\ UNCHANGED nonHostVars

HandshakeNext ==
    \/ HandshakePoll
    \/ \E packet \in HostPackets : HostBroadcast(packet) /\ UNCHANGED nonHostVars
    \/ HostTick /\ UNCHANGED nonHostVars

SpecHandshake == HostStart /\ [][HandshakeNext]_vars

\* the last poll() received a valid HELLO
PolledHello ==
    /\ lastPoll.rcv # <<>>
    /\ is_valid(lastPoll.rcv[1].pkt.header)
    /\ lastPoll.rcv[1].pkt.header.type = HELLO

TypesOf(out) == [i \in 1..Len(out) |-> out[i].pkt.header.type]

\* C2 as stated: a HELLO from an endpoint that is not in the peer table is
\* answered with exactly one WELCOME followed by exactly one STREAM_CONFIG,
\* both to that endpoint, for every stream configuration; a HELLO from an
\* endpoint in the peer table is answered with nothing.
C2_HelloReplies ==
    PolledHello =>
        IF IsPeer(lastPoll.before, lastPoll.rcv[1].source)
            THEN lastPoll.replies = <<>>
            ELSE /\ TypesOf(lastPoll.replies) = <<WELCOME, STREAM_CONFIG>>
                 /\ \A i \in 1..Len(lastPoll.replies) :
                       lastPoll.replies[i].to = lastPoll.rcv[1].source

\* C2 amended: a HELLO from an endpoint that is not in the peer table is
\* answered with exactly one WELCOME, followed by exactly one STREAM_CONFIG
\* when the stream configuration's codec_data is not empty and by nothing
\* more when it is empty, all to that endpoint, and the endpoint is then in
\* the peer table; a HELLO from an endpoint in the peer table is answered with
\* nothing and leaves the table as it is.
C2_HelloRepliesByCodecData ==
    PolledHello =>
        IF IsPeer(lastPoll.before, lastPoll.rcv[1].source)
            THEN lastPoll.replies = <<>> /\ clients_ = lastPoll.before
            ELSE /\ TypesOf(lastPoll.replies) =
                        IF hostConfig.codec_data = <<>> THEN <<WELCOME>>
                        ELSE <<WELCOME, STREAM_CONFIG>>
                 /\ \A i \in 1..Len(lastPoll.replies) :
                       lastPoll.replies[i].to = lastPoll.rcv[1].source
                 /\ IsPeer(clients_, lastPoll.rcv[1].source)

\* with two peers in the table and no codec data, the second peer's HELLO
\* comes again, in a poll() that also sends PINGs, and is not answered
C2_Witness ==
    /\ PolledHello
    /\ Len(lastPoll.before) = 2
    /\ lastPoll.before[2].endpoint = lastPoll.rcv[1].source
    /\ hostConfig.codec_data = <<>>
    /\ lastPoll.pings # <<>>
    /\ lastPoll.replies = <<>>

-----------------------------------------------------------------------------
(* Host: PONGs *)

PongPoll ==
    \E r \in HostInputs({Bare(HELLO), Bare(BYE)} \cup PongDatagrams(hostNow)) :
        HostPoll(r) /\ UNCHANGED nonHostVars

PongNext ==
    \/ PongPoll
    \/ HostTick /\ UNCHANGED nonHostVars

SpecPong == HostStart /\ [][PongNext]_vars

\* the last poll() received a valid PONG
PolledPong ==
    /\ lastPoll.rcv # <<>>
    /\ is_valid(lastPoll.rcv[1].pkt.header)
    /\ lastPoll.rcv[1].pkt.header.type = PONG

\* C8: a PONG changes a peer record only if its payload is long enough and
\* its round trip time now - timestamp_us is more than 0 and less than 10 s; a
\* PONG with a short payload, with a timestamp_us later than now or with a
\* round trip time of more than 10 s changes no record; and a PONG changes no
\* record but that of the peer whose endpoint is its source.
C8_PongStoresSaneRtt ==
    PolledPong =>
        LET payload == lastPoll.rcv[1].pkt.payload
            source == lastPoll.rcv[1].source
            short == Len(payload) < PingPayloadSize
            changed == clients_ # lastPoll.before
        IN /\ short => ~changed
           /\ ~short =>
                 LET rtt == lastPoll.t - payload[1]
                 IN /\ changed => (0 < rtt /\ rtt < RTT_MAX_MS)
                    /\ (payload[1] > lastPoll.t \/ rtt > RTT_MAX_MS) => ~changed
           /\ Len(clients_) = Len(lastPoll.before)
           /\ \A i \in 1..Len(clients_) :
                 clients_[i] # lastPoll.before[i] => clients_[i].endpoint = source

-----------------------------------------------------------------------------
(* Host: a peer falls silent *)

SilencePoll ==
    \E r \in HostInputs({Bare(HELLO), Bare(BYE), ControlPacket(PONG, 0, 0, PingPayload(hostNow))}) :
        HostPoll(r) /\ UNCHANGED nonHostVars

SilenceTick == HostTick /\ UNCHANGED nonHostVars

SilenceEpoch == HostClockEpoch /\ UNCHANGED nonHostVars

SilenceNext ==
    \/ SilencePoll
    \/ SilenceTick
    \/ SilenceEpoch
    \/ \E e \in Endpoints : GoSilent(e) /\ UNCHANGED nonHostVars

\* the receive thread calls poll() again and again, and time passes without
\* end: the clock never stops at the largest value modelled
SilenceFairness == WF_vars(SilencePoll) /\ WF_vars(SilenceTick) /\ WF_vars(SilenceEpoch)

SpecSilence == HostStart /\ [][SilenceNext]_vars /\ SilenceFairness

\* C10: a peer that has stopped sending for good is eventually removed from
\* the peer table.
C10_SilentPeerRemoved ==
    \A e \in Endpoints :
        (e \in silent /\ IsPeer(clients_, e)) ~> ~IsPeer(clients_, e)

-----------------------------------------------------------------------------
(* NACK round trip: the host, one viewer that has connected, and the network
   between them, which delivers what was sent in any order, at any time or
   never. The frames feed() completes are those poll() pushes to the video
   queue (audio frames, to the audio queue). *)

Viewer == "v1"

\* a second keyframe, of one fragment
AsmKeyframe2 == [data |-> <<1>>, type |-> "VideoKeyframe", pts_us |-> 5, frame_id |-> 8]

\* what the host broadcasts, in this order
BroadcastList == <<AsmKeyframe, AsmKeyframe2>>

\* the datagrams pkts, numbered from n + 1 as they are sent
Tag(pkts, n) == {[id |-> n + i, pkt |-> pkts[i]] : i \in 1..Len(pkts)}

PacketsOf(out) == [i \in 1..Len(out) |-> out[i].pkt]

\* Client::send_nack: the datagrams it sends
send_nack(frame_id, missing) ==
    IF missing = <<>> THEN <<>>
    ELSE <<ControlPacket(NACK, 0, frame_id, NackPayload(frame_id, Len(missing)) \o missing)>>

\* a PONG numbered anew
handle_ping_renumbered(pkt) == ControlPacket(PONG, 0, 0, pkt.payload)

\* Client::handle_ping: the PONG it sends
handle_ping(pkt) == ControlPacket(PONG, pkt.header.sequence, 0, pkt.payload)

RECURSIVE SendNacks(_)
\* poll: for (kf : incomplete) send_nack(kf.frame_id, kf.missing_indices)
SendNacks(incomplete) ==
    IF incomplete = <<>> THEN <<>>
    ELSE send_nack(incomplete[1].frame_id, incomplete[1].missing_indices)
             \o SendNacks(SubSeq(incomplete, 2, Len(incomplete)))

\* the host after the viewer's HELLO
HostWithViewer ==
    LET cfg == [params |-> WelcomeParams, codec_data |-> <<1>>]
        h == handle_hello(<<>>, 0, cfg, Viewer)
    IN /\ clients_ = h.clients
       /\ sequence_ = h.sequence
       /\ hostConfig = cfg
       /\ last_keyframe_ = NoKeyframe
       /\ hostNow = 0
       /\ last_ping_time_ = 0
       /\ silent = {}
       /\ hostOut = h.out
       /\ lastPoll = [NoPoll EXCEPT !.rcv = <<[source |-> Viewer, pkt |-> Bare(HELLO)]>>,
                                    !.replies = h.out]

\* Client::poll, r being what recv_from returns
ViewerPoll(r) ==
    IF r = <<>>
        THEN /\ lastViewerPoll' = [t |-> now, rcv |-> <<>>]
             /\ UNCHANGED <<pending_, emitLog, nextEid, toViewer, toHost, netSeq, nackLog,
                            fedLog, emitEids>>
    ELSE
      LET pkt == r[1].pkt
          type == pkt.header.type
          key == FrameKey(pkt.header)
      IN /\ toViewer' = toViewer \ {r[1]}
         /\ lastViewerPoll' = [t |-> now, rcv |-> <<pkt>>]
         /\ IF ~is_valid(pkt.header)
                THEN UNCHANGED <<pending_, emitLog, nextEid, toHost, netSeq, nackLog, fedLog,
                                 emitEids>>
            ELSE
              LET isData == type \in {VIDEO_DATA, AUDIO_DATA}
                  f == IF isData THEN feed(pending_, pkt, now, nextEid)
                       ELSE [pending |-> pending_, result |-> <<>>]
                  eid == IF key \in DOMAIN pending_ THEN pending_[key].eid ELSE nextEid
                  had == IF key \in DOMAIN pending_ THEN pending_[key].frags_received ELSE 0
                  stored == \/ f.result # <<>>
                            \/ key \in DOMAIN f.pending /\ f.pending[key].frags_received > had
                  pongs == IF type = PING THEN <<handle_ping(pkt)>> ELSE <<>>
                  c == check_incomplete_keyframes(f.pending, NACK_AGE_MS, now)
              IN \E incomplete \in Orderings(c.result) :
                    LET sent == pongs \o SendNacks(incomplete)
                        fed == IF stored
                                   THEN Append(fedLog, [eid |-> eid,
                                                        frame_id |-> pkt.header.frame_id,
                                                        frag_idx |-> pkt.header.frag_idx])
                                   ELSE fedLog
                    IN /\ pending_' = purge_stale(c.pending, PURGE_TIMEOUT_MS, now)
                       /\ nextEid' = IF \/ ~isData
                                        \/ key \in DOMAIN pending_
                                        \/ pkt.header.frag_total = 0
                                     THEN nextEid ELSE nextEid + 1
                       /\ emitLog' = emitLog \o f.result
                       /\ emitEids' = IF f.result # <<>> THEN Append(emitEids, eid) ELSE emitEids
                       /\ fedLog' = fed
                       /\ nackLog' = nackLog \o
                              [i \in 1..Len(incomplete) |->
                                  [eid |-> incomplete[i].eid, age |-> incomplete[i].age,
                                   frag_total |-> incomplete[i].frag_total, at |-> Len(fed),
                                   pkt |-> send_nack(incomplete[i].frame_id,
                                                     incomplete[i].missing_indices)[1]]]
                       /\ toHost' = toHost \cup Tag(sent, netSeq)
                       /\ netSeq' = netSeq + Len(sent)

\* the viewer's receive thread polls: a datagram has come, or nothing
NackViewerPoll ==
    /\ \E r \in {<<>>} \cup {<<d>> : d \in toViewer} : ViewerPoll(r)
    /\ UNCHANGED <<now, srcPacket, feedLog, reportLog, checkCalls, bcastCount>>
    /\ UNCHANGED <<queueVars, ringVars, connVars, hostVars, extVars>>

\* the host's receive thread polls, a datagram of the viewer has come
NackHostPoll ==
    /\ \E d \in toHost :
          /\ HostPoll(<<[source |-> Viewer, pkt |-> d.pkt]>>)
          /\ toHost' = toHost \ {d}
    /\ toViewer' = toViewer \cup Tag(PacketsOf(hostOut'), netSeq)
    /\ netSeq' = netSeq + Len(hostOut')
    /\ UNCHANGED <<bcastCount, nackLog, fedLog, emitEids, lastViewerPoll>>
    /\ UNCHANGED <<asmVars, queueVars, ringVars, connVars, extVars>>

\* the host broadcasts its next frame
NackBroadcast ==
    /\ bcastCount < Len(BroadcastList)
    /\ bcastCount' = bcastCount + 1
    /\ HostBroadcast(BroadcastList[bcastCount + 1])
    /\ toViewer' = toViewer \cup Tag(PacketsOf(hostOut'), netSeq)
    /\ netSeq' = netSeq + Len(hostOut')
    /\ UNCHANGED <<toHost, nackLog, fedLog, emitEids, lastViewerPoll>>
    /\ UNCHANGED <<asmVars, queueVars, ringVars, connVars, extVars>>

\* one stray datagram is on its way to the viewer
SpecNackInit ==
    /\ AsmIdle /\ QueueIdle /\ RingInit /\ ConnIdle /\ ExtIdle
    /\ HostWithViewer
    /\ NetInit({[id |-> 0, pkt |-> BadMagic]})

NackNext ==
    \/ NackViewerPoll
    \/ NackHostPoll
    \/ NackBroadcast
    \/ AsmTick

SpecNack == SpecNackInit /\ [][NackNext]_vars

\* the fragment indices feed() had stored in the entry eid after upto feeds
FedInto(eid, upto) == {fedLog[j].frag_idx : j \in {k \in 1..upto : fedLog[k].eid = eid}}

\* the frame ids of the fragments the entry eid was given
FrameIdsOf(eid) == {fedLog[j].frame_id : j \in {k \in 1..Len(fedLog) : fedLog[k].eid = eid}}

\* the indices a NACK names, in its order
NackIndices(pkt) == SubSeq(pkt.payload, NackPayloadSize + 1, Len(pkt.payload))

\* the data of the frame the host has broadcast with this frame_id
BroadcastData(frame_id) ==
    LET i == CHOOSE j \in 1..Len(BroadcastList) : BroadcastList[j].frame_id = frame_id
    IN BroadcastList[i].data

\* a NACK names its entry's frame and exactly the fragments the entry lacks,
\* each once and in rising order, and the entry holds some fragments
NackNamesMissing(n) ==
    LET missing == NackIndices(n.pkt)
    IN /\ n.pkt.header.type = NACK
       /\ FrameIdsOf(n.eid) = {n.pkt.header.frame_id}
       /\ n.pkt.payload[1] = n.pkt.header.frame_id
       /\ n.pkt.payload[2] = Len(missing)
       /\ \A i, j \in 1..Len(missing) : i < j => missing[i] < missing[j]
       /\ SeqRange(missing) = (0..(n.frag_total - 1)) \ FedInto(n.eid, n.at)
       /\ missing # <<>>
       /\ FedInto(n.eid, n.at) # {}

\* the last poll() of the host received a NACK: it resent the fragments the
\* NACK names, in its order, to the NACK's source if its cache held the frame,
\* and nothing if not
HostResendsNamed ==
    (/\ lastPoll.rcv # <<>>
     /\ lastPoll.rcv[1].pkt.header.type = NACK) =>
        LET pkt == lastPoll.rcv[1].pkt
            missing == NackIndices(pkt)
        IN IF pkt.payload[1] = lastPoll.kf.frame_id
               THEN /\ Len(lastPoll.replies) = Len(missing)
                    /\ \A i \in 1..Len(missing) :
                          /\ lastPoll.replies[i].to = lastPoll.rcv[1].source
                          /\ lastPoll.replies[i].pkt = lastPoll.kf.fragments[missing[i] + 1]
               ELSE lastPoll.replies = <<>>

\* a keyframe entry in pending_ that lacks fragments and was at least
\* NACK_AGE_MS old at the viewer's last poll()
OldIncomplete(k) ==
    /\ FLAG_KEYFRAME \in pending_[k].flags
    /\ MissingIndices(pending_[k]) # <<>>
    /\ lastViewerPoll.t - pending_[k].created >= NACK_AGE_MS

Nacked(eid) == \E i \in 1..Len(nackLog) : nackLog[i].eid = eid

\* the entry of the NACK n completed, and the keyframe went to the video queue
EmittedFor(n) ==
    \E m \in 1..Len(emitLog) :
        /\ emitEids[m] = n.eid
        /\ emitLog[m].frame_id = n.pkt.header.frame_id
        /\ emitLog[m].type = "VideoKeyframe"
        /\ emitLog[m].data = BroadcastData(n.pkt.header.frame_id)

\* the keyframe of the NACK n went to the video queue
EmittedFrame(n) ==
    \E m \in 1..Len(emitLog) :
        /\ emitLog[m].frame_id = n.pkt.header.frame_id
        /\ emitLog[m].type = "VideoKeyframe"
        /\ emitLog[m].data = BroadcastData(n.pkt.header.frame_id)

-----------------------------------------------------------------------------
(* Host: audio sent upstream by the viewers. poll() is the only reader of
   the socket; client_audio_cb_ is registered by HostSession::start *)

\* a microphone packet of two fragments, as a viewer would send it
UpstreamAudio == [data |-> <<1, 0, 1>>, type |-> "Audio", pts_us |-> 2, frame_id |-> 5]

\* what the viewers send upstream: the fragments of the audio packet, a video
\* fragment and a HELLO
UpstreamDatagrams ==
    SeqRange(fragment(UpstreamAudio, 0)) \cup {fragment(AsmPFrame, 0)[1], Bare(HELLO)}

\* recv_from gave poll() a valid VIDEO_DATA or AUDIO_DATA datagram
IsUpstreamData(r) ==
    /\ r # <<>>
    /\ is_valid(r[1].pkt.header)
    /\ r[1].pkt.header.type \in {VIDEO_DATA, AUDIO_DATA}

\* what Server::poll does with client_audio_assembler_ and client_audio_cb_:
\* its switch has no case for VIDEO_DATA or AUDIO_DATA, they fall to default
PollUpstream(r) ==
    /\ UNCHANGED <<client_audio_assembler_, clientAudioCalls>>
    /\ upstreamLog' = IF IsUpstreamData(r) THEN Append(upstreamLog, r[1]) ELSE upstreamLog

UpstreamPoll ==
    \E r \in HostInputs(UpstreamDatagrams) :
        /\ IsUpstreamData(r) => Len(upstreamLog) < MaxUpstream
        /\ HostPoll(r)
        /\ PollUpstream(r)
        /\ UNCHANGED nonUpVars

UpstreamNext ==
    \/ UpstreamPoll
    \/ HostTick /\ UNCHANGED nonHostVars

SpecUpstream == HostStart /\ [][UpstreamNext]_vars

\* the fragment indices of the audio packet poll() has received from e
UpstreamReceived(e) ==
    {upstreamLog[i].pkt.header.frag_idx : i \in
        {j \in 1..Len(upstreamLog) :
            /\ upstreamLog[j].source = e
            /\ upstreamLog[j].pkt.header.type = AUDIO_DATA}}

\* C11: the VIDEO_DATA / AUDIO_DATA fragments poll() receives from a peer are
\* fed to the client-upstream reassembler, and once every fragment of one
\* Audio packet has arrived the client-audio callback has been invoked with
\* the assembled packet.
C11_ClientAudioDelivered ==
    \A e \in Endpoints :
        LET got == UpstreamReceived(e)
            all == {k - 1 : k \in 1..Len(fragment(UpstreamAudio, 0))}
        IN /\ (IsPeer(clients_, e) /\ got # {} /\ got # all) =>
                  client_audio_assembler_ # EmptyMap
           /\ (IsPeer(clients_, e) /\ got = all) =>
                  \E i \in 1..Len(clientAudioCalls) :
                      /\ clientAudioCalls[i].data = UpstreamAudio.data
                      /\ clientAudioCalls[i].type = "Audio"

-----------------------------------------------------------------------------
(* Host: clients_mutex_ and keyframe_mutex_. One step per lock, unlock and
   socket send; the poll thread runs Server::poll, the send thread
   Server::broadcast, and a third thread client_count() and max_rtt_ms().
   A std::lock_guard unlocks where its scope ends, on every return *)

\* thread t goes from one place of its function to another
Goto(t, from, to) == lockPc[t] = from /\ lockPc' = [lockPc EXCEPT ![t] = to]

\* std::lock_guard lock(clients_mutex_)
LockClients(t) ==
    clients_mutex_ = "free" /\ clients_mutex_' = t /\ UNCHANGED keyframe_mutex_

\* the end of the scope of a lock_guard on clients_mutex_
UnlockClients(t) ==
    clients_mutex_ = t /\ clients_mutex_' = "free" /\ UNCHANGED keyframe_mutex_

\* std::lock_guard lock(keyframe_mutex_)
LockKeyframe(t) ==
    keyframe_mutex_ = "free" /\ keyframe_mutex_' = t /\ UNCHANGED clients_mutex_

\* the end of the scope of a lock_guard on keyframe_mutex_
UnlockKeyframe(t) ==
    keyframe_mutex_ = t /\ keyframe_mutex_' = "free" /\ UNCHANGED clients_mutex_

NoLock == UNCHANGED <<clients_mutex_, keyframe_mutex_>>

\* a loop of n sends begins, one send is made, nothing is sent
SetLeft(t, n) == lockLeft' = [lockLeft EXCEPT ![t] = n]
DecLeft(t) == lockLeft' = [lockLeft EXCEPT ![t] = @ - 1]
KeepLeft == UNCHANGED lockLeft

\* a broadcast whose lock_guard on keyframe_mutex_ lives to the end of the function
BroadcastCacheKept(t) == NoLock

\* broadcast(): the closing brace of the block that stores last_keyframe_
BroadcastCacheDone(t) == UnlockKeyframe(t)

\* Server::broadcast on thread t
LockBroadcast(t) ==
    \/ Goto(t, "idle", "bc_kf_lock") /\ NoLock /\ KeepLeft
    \/ Goto(t, "idle", "bc_lock") /\ NoLock /\ KeepLeft
    \/ Goto(t, "bc_kf_lock", "bc_kf_locked") /\ LockKeyframe(t) /\ KeepLeft
    \/ Goto(t, "bc_kf_locked", "bc_lock") /\ BroadcastCacheDone(t) /\ KeepLeft
    \/ \E n \in 0..MaxSends :
          Goto(t, "bc_lock", "bc_loop") /\ LockClients(t) /\ SetLeft(t, n)
    \/ lockLeft[t] > 0 /\ Goto(t, "bc_loop", "bc_send") /\ NoLock /\ KeepLeft
    \/ Goto(t, "bc_send", "bc_loop") /\ NoLock /\ DecLeft(t)
    \/ lockLeft[t] = 0 /\ Goto(t, "bc_loop", "idle") /\ UnlockClients(t) /\ KeepLeft

\* Server::send_pings on thread t, called by poll() when a ping is due
LockSendPings(t) ==
    \/ Goto(t, "idle", "ping_lock") /\ NoLock /\ KeepLeft
    \/ \E n \in 0..MaxSends :
          Goto(t, "ping_lock", "ping_loop") /\ LockClients(t) /\ SetLeft(t, n)
    \/ lockLeft[t] > 0 /\ Goto(t, "ping_loop", "ping_send") /\ NoLock /\ KeepLeft
    \/ Goto(t, "ping_send", "ping_loop") /\ NoLock /\ DecLeft(t)
    \/ lockLeft[t] = 0 /\ Goto(t, "ping_loop", "recv") /\ UnlockClients(t) /\ KeepLeft

\* poll(): no ping is due, then recv_from and the switch on the packet type
LockRecv(t) ==
    \/ Goto(t, "idle", "recv") /\ NoLock /\ KeepLeft
    \/ \E to \in {"idle", "hello_lock", "bye_lock", "pong_lock", "nack_lock"} :
          Goto(t, "recv", to) /\ NoLock /\ KeepLeft

\* Server::handle_hello on thread t: the peer is known, or it is added and
\* WELCOME and STREAM_CONFIG are sent after the lock is gone
LockHello(t) ==
    \/ Goto(t, "hello_lock", "hello_locked") /\ LockClients(t) /\ KeepLeft
    \/ Goto(t, "hello_locked", "idle") /\ UnlockClients(t) /\ KeepLeft
    \/ Goto(t, "hello_locked", "hello_send") /\ UnlockClients(t) /\ SetLeft(t, 1)
    \/ Goto(t, "hello_send", "hello_config") /\ NoLock /\ SetLeft(t, 0)
    \/ Goto(t, "hello_config", "idle") /\ NoLock /\ KeepLeft
    \/ Goto(t, "hello_config", "config_send") /\ NoLock /\ SetLeft(t, 1)
    \/ Goto(t, "config_send", "idle") /\ NoLock /\ SetLeft(t, 0)

\* poll()'s case BYE on thread t
LockBye(t) ==
    \/ Goto(t, "bye_lock", "bye_locked") /\ LockClients(t) /\ KeepLeft
    \/ Goto(t, "bye_locked", "idle") /\ UnlockClients(t) /\ KeepLeft

\* Server::handle_pong on thread t: it returns early, or stores the RTT
LockPong(t) ==
    \/ Goto(t, "pong_lock", "idle") /\ NoLock /\ KeepLeft
    \/ Goto(t, "pong_lock", "pong_locked") /\ LockClients(t) /\ KeepLeft
    \/ Goto(t, "pong_locked", "idle") /\ UnlockClients(t) /\ KeepLeft

\* Server::handle_nack on thread t: it returns early, or finds another
\* frame_id, or resends fragments from the cache
LockNack(t) ==
    \/ Goto(t, "nack_lock", "idle") /\ NoLock /\ KeepLeft
    \/ Goto(t, "nack_lock", "nack_locked") /\ LockKeyframe(t) /\ KeepLeft
    \/ Goto(t, "nack_locked", "idle") /\ UnlockKeyframe(t) /\ KeepLeft
    \/ \E n \in 0..MaxSends :
          Goto(t, "nack_locked", "nack_loop") /\ NoLock /\ SetLeft(t, n)
    \/ lockLeft[t] > 0 /\ Goto(t, "nack_loop", "nack_send") /\ NoLock /\ KeepLeft
    \/ Goto(t, "nack_send", "nack_loop") /\ NoLock /\ DecLeft(t)
    \/ lockLeft[t] = 0 /\ Goto(t, "nack_loop", "idle") /\ UnlockKeyframe(t) /\ KeepLeft

\* Server::client_count and Server::max_rtt_ms on thread t
LockStats(t) ==
    \/ \E f \in {"count", "rtt"} : Goto(t, "idle", f) /\ NoLock /\ KeepLeft
    \/ \E f \in {"count", "rtt"} : Goto(t, f, "stats_locked") /\ LockClients(t) /\ KeepLeft
    \/ Goto(t, "stats_locked", "idle") /\ UnlockClients(t) /\ KeepLeft

SpecLocksInit ==
    AsmIdle /\ QueueIdle /\ RingInit /\ ConnIdle /\ HostIdle /\ NetIdle
        /\ UpIdle /\ LockIdle /\ StopIdle /\ DecInit /\ TestIdle /\ MoreIdle

LocksNext ==
    \/ LockBroadcast("send") /\ UNCHANGED nonLockVars
    \/ LockSendPings("poll") /\ UNCHANGED nonLockVars
    \/ LockRecv("poll") /\ UNCHANGED nonLockVars
    \/ LockHello("poll") /\ UNCHANGED nonLockVars
    \/ LockBye("poll") /\ UNCHANGED nonLockVars
    \/ LockPong("poll") /\ UNCHANGED nonLockVars
    \/ LockNack("poll") /\ UNCHANGED nonLockVars
    \/ LockStats("stats") /\ UNCHANGED nonLockVars

SpecLocks == SpecLocksInit /\ [][LocksNext]_vars

\* thread t is inside socket_.send_to
InSendTo(t) == lockPc[t] \in {"bc_send", "ping_send", "hello_send", "config_send", "nack_send"}

\* thread t is blocked in the constructor of a lock_guard
WaitsForClients(t) ==
    /\ lockPc[t] \in {"bc_lock", "ping_lock", "hello_lock", "bye_lock", "pong_lock", "count", "rtt"}
    /\ clients_mutex_ # "free"
WaitsForKeyframe(t) ==
    lockPc[t] \in {"bc_kf_lock", "nack_lock"} /\ keyframe_mutex_ # "free"

\* C12: a thread that is inside socket send_to does not hold keyframe_mutex_,
\* so a broadcast that wants to store its keyframe never waits for a socket
\* send of the NACK handler.
C12_NoSendUnderKeyframeLock ==
    /\ \A t \in LockThreads : InSendTo(t) => keyframe_mutex_ # t
    /\ ~(WaitsForKeyframe("send") /\ InSendTo("poll"))

\* C13: no thread holds clients_mutex_ and keyframe_mutex_ at the same time,
\* and no two threads wait for each other's mutex.
C13_NoNestedLocks ==
    /\ \A t \in LockThreads : ~(clients_mutex_ = t /\ keyframe_mutex_ = t)
    /\ \A t, u \in LockThreads :
          ~(/\ WaitsForClients(t) /\ clients_mutex_ = u
            /\ WaitsForKeyframe(u) /\ keyframe_mutex_ = t)
    /\ \A t \in LockThreads :
          (WaitsForClients(t) \/ WaitsForKeyframe(t)) =>
              \E u \in LockThreads \ {t} : ENABLED (LocksNext /\ lockPc'[u] # lockPc[u])

\* both mutexes are held, by different threads: the poll thread resends from
\* the cache while broadcast() sends to the peers, and a third thread waits
C13_Witness ==
    /\ keyframe_mutex_ = "poll" /\ lockPc["poll"] = "nack_send"
    /\ clients_mutex_ = "send" /\ lockPc["send"] = "bc_send"
    /\ WaitsForClients("stats")

-----------------------------------------------------------------------------
(* Sessions: HostSession::stop and ClientSession::stop, one step per
   request_stop(), close() and join(). A thread leaves its loop once its stop
   was requested or running_ was cleared; join() returns when it has left *)

\* the threads of a host session, in the order stop() names them
HostThreadOrder ==
    <<"client_audio_decode_thread_", "audio_capture_thread_", "audio_encode_thread_",
      "capture_thread_", "encode_thread_", "send_thread_", "poll_thread_">>

\* the queues HostSession::stop closes, in its order
HostQueueOrder == <<"client_audio_queue_", "audio_raw_queue_", "audio_encoded_queue_">>

\* the threads of a viewer session, in the order stop() names them
ViewerThreadOrder == <<"audio_decode_thread_", "recv_thread_", "decode_thread_">>

\* the queues ClientSession::stop closes, in its order
ViewerQueueOrder == <<"video_queue_", "audio_queue_", "decoded_queue_">>

\* the threads start() and run() can have spawned: audio and the playback of
\* the viewers' microphones are optional
HostJoinables ==
    {{}} \cup
    {{"capture_thread_", "encode_thread_", "send_thread_", "poll_thread_"} \cup a \cup c :
        a \in {{}, {"audio_capture_thread_", "audio_encode_thread_"}},
        c \in {{}, {"client_audio_decode_thread_"}}}
ViewerJoinables ==
    {{}} \cup {{"recv_thread_", "decode_thread_"} \cup a : a \in {{}, {"audio_decode_thread_"}}}

Stmt(op, on) == [op |-> op, on |-> on]
Each(op, names) == [i \in 1..Len(names) |-> Stmt(op, names[i])]
Spawned(order, js) == SelectSeq(order, LAMBDA t : t \in js)

\* HostSession::stop: the statements that act on threads and queues
HostStopProgram(js) ==
    Each("request_stop", Spawned(HostThreadOrder, js))
        \o Each("close", HostQueueOrder)
        \o Each("join", Spawned(HostThreadOrder, js))

RECURSIVE StopAndJoinEach(_)
\* if (t.joinable()) { t.request_stop(); t.join(); } for each thread
StopAndJoinEach(ts) ==
    IF ts = <<>> THEN <<>>
    ELSE <<Stmt("request_stop", ts[1]), Stmt("join", ts[1])>>
             \o StopAndJoinEach(SubSeq(ts, 2, Len(ts)))

\* ClientSession::stop: the statements that act on threads and queues
ViewerStopProgram(js) ==
    StopAndJoinEach(Spawned(ViewerThreadOrder, js)) \o Each("close", ViewerQueueOrder)

StopProgram == IF session = "host" THEN HostStopProgram(joinable) ELSE ViewerStopProgram(joinable)

SessionQueues == SeqRange(IF session = "host" THEN HostQueueOrder ELSE ViewerQueueOrder)

\* the next statement of stop()
StopStatement ==
    /\ stopPc < Len(StopProgram)
    /\ LET st == StopProgram[stopPc + 1]
       IN /\ st.op = "join" => threadState[st.on] = "exited"
          /\ threadState' =
                 IF st.op = "request_stop" /\ threadState[st.on] = "running"
                     THEN [threadState EXCEPT ![st.on] = "stopping"]
                     ELSE threadState
          /\ stopLog' = Append(stopLog, st)
          /\ stopPc' = stopPc + 1
    /\ UNCHANGED <<session, joinable>>

\* a thread's loop ends: its stop was requested, or running_ was cleared
ThreadExit ==
    \E t \in joinable :
        /\ threadState[t] # "exited"
        /\ threadState' = [threadState EXCEPT ![t] = "exited"]
        /\ UNCHANGED <<session, joinable, stopPc, stopLog>>

SpecStopInit ==
    /\ AsmIdle /\ QueueIdle /\ RingInit /\ ConnIdle /\ HostIdle /\ NetIdle
    /\ UpIdle /\ LockIdle /\ DecInit /\ TestIdle /\ MoreIdle
    /\ \/ \E js \in HostJoinables : StopInit("host", js)
       \/ \E js \in ViewerJoinables : StopInit("viewer", js)

StopNext ==
    \/ StopStatement /\ UNCHANGED nonStopVars
    \/ ThreadExit /\ UNCHANGED nonStopVars

SpecStop == SpecStopInit /\ [][StopNext]_vars

\* stop() has called op on x before its i-th call
CalledBefore(op, x, i) == \E j \in 1..(i - 1) : stopLog[j] = Stmt(op, x)

\* C14: in the host session and in the viewer session, stop() calls
\* request_stop on every spawned thread, then close() on every queue, and
\* joins a thread only after all of these calls.
C14_StopOrder ==
    \A i \in 1..Len(stopLog) :
        /\ stopLog[i].op = "close" =>
               \A t \in joinable : CalledBefore("request_stop", t, i)
        /\ stopLog[i].op = "join" =>
               /\ \A t \in joinable : CalledBefore("request_stop", t, i)
               /\ \A q \in SessionQueues : CalledBefore("close", q, i)

-----------------------------------------------------------------------------
(* Viewer: ClientSession::decode_loop, one step per iteration that pops a
   packet. The codec is a library: what it makes of a packet is not decided
   here, except that VideoDecoder::decode rejects empty data itself *)

\* a packet without data
EmptyVideo == [data |-> <<>>, type |-> "VideoPFrame", pts_us |-> 5, frame_id |-> 9]

\* the packets the viewer's poll() puts into video_queue_
DecodePackets == {AsmKeyframe, AsmPFrame, EmptyVideo}

\* the RawVideoFrame decode() builds: frame.pts_us = packet.pts_us
DecodedFrame(packet) == [pts_us |-> packet.pts_us]

\* VideoDecoder::decode: std::nullopt (<<>>) or a frame
DecodeOutcomes(packet) ==
    IF packet.data = <<>> THEN {<<>>} ELSE {<<>>, <<DecodedFrame(packet)>>}

\* ThreadSafeQueue::push on a queue of capacity max_size
PushTo(q, item, max_size) ==
    Enqueue(IF IsFull(q, max_size) THEN DropOldest(q) ELSE q, item)

\* poll() pushes an assembled video packet
DecReceive ==
    \E packet \in DecodePackets :
        /\ Len(video_queue_) + Len(decodeLog) < MaxDecode
        /\ video_queue_' = Append(video_queue_, packet)
        /\ UNCHANGED <<decoded_queue_, keyframeReqs, decodeLog>>

\* one iteration of decode_loop in which wait_pop returns a packet
DecodeIteration ==
    /\ video_queue_ # <<>>
    /\ LET packet == Head(video_queue_)
       IN \E decoded \in DecodeOutcomes(packet) :
             /\ video_queue_' = Tail(video_queue_)
             /\ decoded_queue_' =
                    IF decoded # <<>> THEN PushTo(decoded_queue_, decoded[1], DecodedCap)
                    ELSE decoded_queue_
             /\ decodeLog' = Append(decodeLog, [packet |-> packet, ok |-> decoded # <<>>])
             /\ UNCHANGED keyframeReqs

\* the render loop drains decoded_queue_
DecRender ==
    /\ decoded_queue_ # <<>>
    /\ decoded_queue_' = <<>>
    /\ UNCHANGED <<video_queue_, keyframeReqs, decodeLog>>

SpecDecodeInit ==
    /\ AsmIdle /\ QueueIdle /\ RingInit /\ ConnIdle /\ HostIdle /\ NetIdle
    /\ UpIdle /\ LockIdle /\ StopIdle /\ DecInit /\ TestIdle /\ MoreIdle

DecodeNext ==
    \/ DecReceive /\ UNCHANGED nonDecVars
    \/ DecodeIteration /\ UNCHANGED nonDecVars
    \/ DecRender /\ UNCHANGED nonDecVars

SpecDecode == SpecDecodeInit /\ [][DecodeNext]_vars

\* the packets decode() has rejected so far
Rejected == {i \in 1..Len(decodeLog) : ~decodeLog[i].ok}

\* C15: for every packet the video decoder rejects the viewer sends a
\* KEYFRAME_REQ to the host (beside the one run() sends at start); the packet
\* is dropped and the loop goes on with the packets behind it.
C15_DecodeFailureRequestsKeyframe ==
    keyframeReqs >= 1 + Cardinality(Rejected)

-----------------------------------------------------------------------------
(* Fragmenter: fragment() applied to packets of every size up to one fragment
   more than the 8-bit fields can count, and the fragments fed to a fresh
   reassembler in order or in reverse order
   (tests/test_large_frame_roundtrip.cpp) *)

\* MAX_UDP_PAYLOAD, of which MAX_FRAGMENT_DATA is what the header leaves
MAX_UDP_PAYLOAD == HEADER_SIZE + MAX_FRAGMENT_DATA

\* Packet::serialize: buf(HEADER_SIZE + payload.size())
SerializedSize(pkt) == HEADER_SIZE + Len(pkt.payload)

\* the longest data fragmented
MaxFragmentLen == (FRAG_MOD + 1) * MAX_FRAGMENT_DATA

\* data of each length: ones then zeros, and alternating bytes
FragmentData ==
    {[i \in 1..len |-> IF 2 * i <= len + 1 THEN 1 ELSE 0] : len \in 0..MaxFragmentLen}
        \cup {[i \in 1..len |-> i % 2] : len \in 0..MaxFragmentLen}

FragmentPackets ==
    {[data |-> d, type |-> ty, pts_us |-> 3, frame_id |-> 7] :
        d \in FragmentData, ty \in FrameTypes}

\* the frame needs more fragments than the assert of fragment() allows
Large(encoded) == NumFrags(Len(encoded.data)) > FRAG_MOD - 1

\* what a call fragment(encoded, 0) can do: with assertions compiled in,
\* assert(num_frags <= 255) ends the program; without, the fragments are built
FragmentCalls(encoded) ==
    {[called |-> TRUE, aborted |-> FALSE, fragments |-> fragment(encoded, 0)]}
        \cup (IF Large(encoded)
                  THEN {[called |-> TRUE, aborted |-> TRUE, fragments |-> <<>>]}
                  ELSE {})

\* fragmenter.fragment(original, seq)
CallFragment ==
    /\ ~fragResult.called
    /\ fragResult' \in FragmentCalls(srcPacket)
    /\ UNCHANGED <<frames, feedResults, purgeLog, asmVars>>

\* the fragment the test's loop feeds next: ascending, or descending
NextInOrder(fragments, fed) ==
    IF fed = <<>> THEN {1, Len(fragments)}
    ELSE IF fed[1] = 0 /\ Len(fragments) > 1 THEN {Len(fed) + 1}
    ELSE {Len(fragments) - Len(fed)}

\* result = assembler.feed(fragments[i])
FragmentFeed ==
    /\ fragResult.called
    /\ Len(feedLog) < Len(fragResult.fragments)
    /\ \E i \in NextInOrder(fragResult.fragments, feedLog) :
          /\ FeedStep(fragResult.fragments[i])
          /\ feedLog' = Append(feedLog, i - 1)
          /\ feedResults' =
                 Append(feedResults, feed(pending_, fragResult.fragments[i], now, nextEid).result)
    /\ UNCHANGED <<now, srcPacket, reportLog, checkCalls, fragResult, frames, purgeLog>>

SpecFragmentInit ==
    /\ AsmInit /\ srcPacket \in FragmentPackets
    /\ QueueIdle /\ RingInit /\ ConnIdle /\ HostIdle /\ NetIdle /\ ExtIdle

FragmentNext ==
    \/ CallFragment /\ UNCHANGED nonTestVars
    \/ FragmentFeed /\ UNCHANGED nonTestVars

SpecFragment == SpecFragmentInit /\ [][FragmentNext]_vars

\* C16: a frame of n > 255 fragments is split into n fragments, the last with
\* frag_idx = n - 1 and frag_total = n; fed in order or in reverse order the
\* reassembler returns nothing before the n-th feed and then a packet with the
\* original data.
C16_LargeFrameRoundTrip ==
    (Large(srcPacket) /\ fragResult.called) =>
        LET n == NumFrags(Len(srcPacket.data))
            fragments == fragResult.fragments
        IN /\ ~fragResult.aborted
           /\ Len(fragments) = n
           /\ fragments[n].header.frag_idx = n - 1
           /\ fragments[n].header.frag_total = n
           /\ \A j \in 1..Len(feedResults) : j < n => feedResults[j] = <<>>
           /\ Len(feedResults) = n =>
                  /\ feedResults[n] # <<>>
                  /\ feedResults[n][1].data = srcPacket.data

\* C20: every fragment of fragment(P) has at most MAX_FRAGMENT_DATA bytes of
\* payload and at most MAX_UDP_PAYLOAD bytes when serialized, and every
\* fragment but the last has exactly MAX_FRAGMENT_DATA bytes of payload.
C20_FragmentSizes ==
    fragResult.called =>
        \A k \in 1..Len(fragResult.fragments) :
            LET pkt == fragResult.fragments[k]
            IN /\ Len(pkt.payload) <= MAX_FRAGMENT_DATA
               /\ SerializedSize(pkt) <= MAX_UDP_PAYLOAD
               /\ k < Len(fragResult.fragments) => Len(pkt.payload) = MAX_FRAGMENT_DATA

\* fragment() has split a packet into several full fragments and a shorter
\* last one
C20_Witness ==
    /\ fragResult.called
    /\ Len(fragResult.fragments) > 2
    /\ Len(fragResult.fragments[Len(fragResult.fragments)].payload) < MAX_FRAGMENT_DATA
    /\ Len(fragResult.fragments[1].payload) = MAX_FRAGMENT_DATA

-----------------------------------------------------------------------------
(* Reassembler: feed() and purge_stale() with every call written down *)

\* the entry feed(packet) looks at: the one of the packet's key, or a new one
EntryOf(packet) ==
    IF FrameKey(packet.header) \in DOMAIN pending_
        THEN pending_[FrameKey(packet.header)].eid
        ELSE nextEid

\* assembler.feed(packet), packet being a fragment of frames[f] (f = 0: of none)
LogFeed(packet, f) ==
    /\ FeedStep(packet)
    /\ feedLog' = Append(feedLog, [pkt |-> packet, frame |-> f, eid |-> EntryOf(packet),
                                   purges |-> Len(purgeLog)])
    /\ feedResults' = Append(feedResults, feed(pending_, packet, now, nextEid).result)
    /\ UNCHANGED <<now, srcPacket, reportLog, checkCalls, fragResult, frames, purgeLog>>

\* assembler.purge_stale(timeout_ms)
LogPurge(timeout_ms) ==
    /\ pending_' = purge_stale(pending_, timeout_ms, now)
    /\ purgeLog' = Append(purgeLog, [timeout |-> timeout_ms, t |-> now,
                                     erased |-> DOMAIN pending_ \ DOMAIN pending_'])
    /\ UNCHANGED <<now, srcPacket, feedLog, emitLog, reportLog, checkCalls, nextEid,
                   fragResult, frames, feedResults>>

\* the fragment indices of key fed at the feeds from..upto that came after
\* the first purges calls of purge_stale
FedIndices(key, from, upto, purges) ==
    {feedLog[j].pkt.header.frag_idx : j \in
        {i \in from..upto : /\ FrameKey(feedLog[i].pkt.header) = key
                            /\ feedLog[i].purges >= purges}}

-----------------------------------------------------------------------------
(* Reassembler: purge_stale between the fragments of a keyframe of three
   fragments and an audio packet of two (tests/test_phase5_protocol.cpp) *)

PurgePackets ==
    SeqRange(fragment(AsmKeyframe, 0)) \cup SeqRange(fragment(UpstreamAudio, 0))

\* feeds in one run: every fragment of the keyframe and one more
PurgeFeeds == Len(fragment(AsmKeyframe, 0)) + 1

PurgeFeed ==
    \E packet \in PurgePackets :
        /\ Len(feedLog) < PurgeFeeds
        /\ LogFeed(packet, 0)
        /\ UNCHANGED nonTestVars

PurgeCall ==
    \E timeout_ms \in PurgeTimeouts :
        /\ Len(purgeLog) < MaxPurges
        /\ LogPurge(timeout_ms)
        /\ UNCHANGED nonTestVars

\* the clock's steps between the calls, in ms
PurgeTicks == {300}

\* time passes
PurgeTick ==
    \E d \in PurgeTicks :
        /\ now + d <= MaxNow
        /\ now' = now + d
        /\ UNCHANGED <<pending_, srcPacket, feedLog, emitLog, reportLog, checkCalls, nextEid,
                       nonAsmVars>>

PurgeNext == PurgeFeed \/ PurgeCall \/ PurgeTick

SpecPurge == SpecAsmInit /\ [][PurgeNext]_vars

\* the last call of purge_stale that erased an entry of key among the first
\* upto calls, 0 if there is none
LastErase(key, upto) ==
    LET hits == {i \in 1..upto : key \in purgeLog[i].erased}
    IN IF hits = {} THEN 0 ELSE CHOOSE i \in hits : \A j \in hits : j <= i

\* this step is a call purge_stale(timeout_ms): afterwards no entry is older
\* than timeout_ms, and the entries that are not older are as they were
PurgeStep ==
    Len(purgeLog') > Len(purgeLog) =>
        LET timeout_ms == purgeLog'[Len(purgeLog')].timeout
        IN /\ \A k \in DOMAIN pending_' : now - pending_'[k].created <= timeout_ms
           /\ \A k \in DOMAIN pending_ :
                  now - pending_[k].created <= timeout_ms =>
                      k \in DOMAIN pending_' /\ pending_'[k] = pending_[k]

\* what an entry holds was fed after the last purge that erased its key
FreshEntries ==
    \A k \in DOMAIN pending_ : \A idx \in 0..(pending_[k].frag_total - 1) :
        SlotFilled(pending_[k], idx) =>
            idx \in FedIndices(k, 1, Len(feedLog), LastErase(k, Len(purgeLog)))

\* a packet is returned only when every fragment of it was fed after the last
\* purge that erased its key
FreshEmits ==
    \A j \in 1..Len(feedResults) :
        feedResults[j] # <<>> =>
            LET h == feedLog[j].pkt.header
            IN \A idx \in 0..(h.frag_total - 1) :
                  idx \in FedIndices(FrameKey(h), 1, j, LastErase(FrameKey(h), feedLog[j].purges))

\* C17: after purge_stale(t) no entry older than t is left and every entry
\* not older than t is there unchanged; the fragments of a purged frame that
\* arrive later fill a fresh entry and do not complete the frame without the
\* fragments that were purged.
C17_PurgeStale == [][PurgeStep]_vars /\ [](FreshEntries /\ FreshEmits)

\* the keyframe's entry was purged with one fragment in it while the audio
\* packet's younger entry was kept, and the keyframe's two other fragments,
\* fed afterwards, wait in a fresh entry
C17_Witness ==
    LET k == FrameKey(fragment(AsmKeyframe, 0)[1].header)
        a == FrameKey(fragment(UpstreamAudio, 0)[1].header)
    IN /\ k \in DOMAIN pending_ /\ a \in DOMAIN pending_
       /\ LastErase(k, Len(purgeLog)) > 0
       /\ LastErase(a, Len(purgeLog)) = 0
       /\ pending_[a].created < purgeLog[LastErase(k, Len(purgeLog))].t
       /\ pending_[k].frags_received = 2
       /\ ~SlotFilled(pending_[k], 0)
       /\ 0 \in FedIndices(k, 1, Len(feedLog), 0)

-----------------------------------------------------------------------------
(* Reassembler: fragments fed more than once while their frame is incomplete
   (tests/test_packet_roundtrip.cpp) *)

\* the first of two fragments of a P-frame, as a datagram of HEADER_SIZE
\* bytes carries it: without payload
HeaderOnly == [header |-> Header(VIDEO_DATA, {FLAG_FIRST}, 0, 0, 9, 0, 2), payload |-> <<>>]

DuplicatePackets == SeqRange(fragment(AsmKeyframe, 0)) \cup {HeaderOnly}

DuplicateFeed ==
    \E packet \in DuplicatePackets :
        /\ Len(feedLog) < MaxFeeds
        /\ LogFeed(packet, 0)
        /\ UNCHANGED nonTestVars

DuplicateNext == DuplicateFeed \/ AsmTick

SpecDuplicate == SpecAsmInit /\ [][DuplicateNext]_vars

\* the last feed of log repeats a fragment that was fed to the same entry
RepeatsFragment(log) ==
    \E i \in 1..(Len(log) - 1) :
        /\ log[i].pkt = log[Len(log)].pkt
        /\ log[i].eid = log[Len(log)].eid

\* C18: a fragment fed again while its frame is incomplete changes nothing:
\* feed() returns None and the entry's received count, payloads and flags are
\* as after the first feed.
C18_DuplicateIgnored ==
    [][(Len(feedLog') > Len(feedLog) /\ RepeatsFragment(feedLog')) =>
          /\ feedResults'[Len(feedResults')] = <<>>
          /\ pending_' = pending_]_vars

-----------------------------------------------------------------------------
(* Reassembler: the fragments of two frames with different keys, each fed
   once, in any order (tests/test_packet_roundtrip.cpp) *)

\* an audio packet with the keyframe's frame_id
AudioSameId == [data |-> <<0, 1, 1>>, type |-> "Audio", pts_us |-> 6, frame_id |-> 7]

InterleaveFrames == {AsmKeyframe, AsmPFrame, UpstreamAudio, AudioSameId}

\* the key the fragments of an EncodedPacket carry
KeyOfFrame(encoded) == <<encoded.frame_id, PacketTypeOf(encoded.type)>>

FramePairs ==
    {fs \in InterleaveFrames \X InterleaveFrames : KeyOfFrame(fs[1]) # KeyOfFrame(fs[2])}

\* the fragments of frames[f] fed at the first upto feeds
FedOf(f, upto) ==
    {feedLog[j].pkt.header.frag_idx : j \in {i \in 1..upto : feedLog[i].frame = f}}

AllOf(f) == {k - 1 : k \in 1..Len(fragment(frames[f], 0))}

InterleaveFeed ==
    \E f \in 1..Len(frames) : \E idx \in AllOf(f) \ FedOf(f, Len(feedLog)) :
        /\ LogFeed(fragment(frames[f], 0)[idx + 1], f)
        /\ UNCHANGED nonTestVars

SpecInterleaveInit ==
    /\ AsmIdle
    /\ QueueIdle /\ RingInit /\ ConnIdle /\ HostIdle /\ NetIdle
    /\ UpIdle /\ LockIdle /\ StopIdle /\ DecInit /\ MoreIdle
    /\ \E fs \in FramePairs : TestInit(fs)

InterleaveNext == InterleaveFeed \/ AsmTick

SpecInterleave == SpecInterleaveInit /\ [][InterleaveNext]_vars

RECURSIVE FeedAllFrom(_, _, _)
\* what the last feed() returns when fragments i.. are fed in order
FeedAllFrom(pend, fragments, i) ==
    LET r == feed(pend, fragments[i], 0, 0)
    IN IF i = Len(fragments) THEN r.result ELSE FeedAllFrom(r.pending, fragments, i + 1)

\* the packet a fresh reassembler returns for the frame fed alone
FedAlone(encoded) == FeedAllFrom(EmptyMap, fragment(encoded, 0), 1)

\* C19: of two frames with different keys fed interleaved, each is returned
\* by the feed of its last missing fragment and by no other feed, and the
\* packet returned has the data and type it has when the frame is fed alone.
C19_InterleavedFrames ==
    \A j \in 1..Len(feedLog) :
        LET f == feedLog[j].frame
            last == FedOf(f, j) = AllOf(f) /\ FedOf(f, j - 1) # AllOf(f)
        IN /\ feedResults[j] # <<>> <=> last
           /\ last =>
                  /\ feedResults[j] = FedAlone(frames[f])
                  /\ feedResults[j][1].data = frames[f].data
                  /\ feedResults[j][1].type = frames[f].type

\* a video frame and an audio packet with the same frame_id have both been
\* returned, the fragments of each fed between fragments of the other
C19_Witness ==
    /\ frames[1].frame_id = frames[2].frame_id
    /\ Len(feedResults) = Cardinality(AllOf(1)) + Cardinality(AllOf(2))
    /\ \E i, j, k, l \in 1..Len(feedLog) :
          /\ i < j /\ j < k /\ k < l
          /\ feedLog[i].frame = 1 /\ feedLog[j].frame = 2
          /\ feedLog[k].frame = 1 /\ feedLog[l].frame = 2
    /\ \E j \in 1..Len(feedResults) : feedResults[j] # <<>> /\ feedLog[j].frame = 1
    /\ \E j \in 1..Len(feedResults) : feedResults[j] # <<>> /\ feedLog[j].frame = 2



-----------------------------------------------------------------------------
(* Datagrams as bytes: PacketHeader::to_network and from_network copy the
   sixteen bytes of the packed struct, Packet::serialize and deserialize put
   the payload behind them. The build is little-endian. The flags byte is a
   set of bit names; a payload element stands for itself. *)

\* the bits of PacketHeader::flags, lowest first
FlagNames == <<FLAG_KEYFRAME, FLAG_FIRST, FLAG_LAST, "0x08", "0x10", "0x20", "0x40", "0x80">>

RECURSIVE Pow(_, _)
Pow(b, n) == IF n = 0 THEN 1 ELSE b * Pow(b, n - 1)

RECURSIVE BitSum(_, _)
\* the byte whose bits are the first n names that are in flags
BitSum(flags, n) ==
    IF n = 0 THEN 0
    ELSE BitSum(flags, n - 1) + (IF FlagNames[n] \in flags THEN Pow(2, n - 1) ELSE 0)

FlagsByte(flags) == BitSum(flags, Len(FlagNames))

FlagsOf(b) == {FlagNames[i] : i \in {j \in 1..Len(FlagNames) : (b \div Pow(2, j - 1)) % 2 = 1}}

\* the n bytes of the unsigned v, lowest first
LittleEndian(v, n) == [i \in 1..n |-> (v \div Pow(256, i - 1)) % 256]

RECURSIVE FromLittleEndian(_)
FromLittleEndian(bytes) ==
    IF bytes = <<>> THEN 0
    ELSE bytes[1] + 256 * FromLittleEndian(SubSeq(bytes, 2, Len(bytes)))

\* PacketHeader::to_network
to_network(h) ==
    <<h.magic, h.version, h.type, FlagsByte(h.flags)>>
        \o LittleEndian(h.sequence, 4)
        \o LittleEndian(h.timestamp_us, 4)
        \o LittleEndian(h.frame_id, 2)
        \o <<h.frag_idx, h.frag_total>>

\* a from_network that reads frame_id highest byte first
from_network_swapped(buf) ==
    [magic |-> buf[1], version |-> buf[2], type |-> buf[3], flags |-> FlagsOf(buf[4]),
     sequence |-> FromLittleEndian(SubSeq(buf, 5, 8)),
     timestamp_us |-> FromLittleEndian(SubSeq(buf, 9, 12)),
     frame_id |-> FromLittleEndian(<<buf[14], buf[13]>>),
     frag_idx |-> buf[15], frag_total |-> buf[16]]

\* PacketHeader::from_network
from_network(buf) ==
    [magic |-> buf[1], version |-> buf[2], type |-> buf[3], flags |-> FlagsOf(buf[4]),
     sequence |-> FromLittleEndian(SubSeq(buf, 5, 8)),
     timestamp_us |-> FromLittleEndian(SubSeq(buf, 9, 12)),
     frame_id |-> FromLittleEndian(SubSeq(buf, 13, 14)),
     frag_idx |-> buf[15], frag_total |-> buf[16]]

\* Packet p; : every header field 0, no payload
DefaultPacket ==
    [header |-> [magic |-> 0, version |-> 0, type |-> 0, flags |-> {}, sequence |-> 0,
                 timestamp_us |-> 0, frame_id |-> 0, frag_idx |-> 0, frag_total |-> 0],
     payload |-> <<>>]

\* Packet::serialize
serialize(p) == to_network(p.header) \o p.payload

\* Packet::deserialize
deserialize(data) ==
    IF Len(data) < HEADER_SIZE THEN DefaultPacket
    ELSE [header |-> from_network(data),
          payload |-> IF Len(data) > HEADER_SIZE
                          THEN SubSeq(data, HEADER_SIZE + 1, Len(data))
                          ELSE <<>>]

-----------------------------------------------------------------------------
(* Wire round trip: a Packet is serialized, and the bytes are deserialized.
   Each field takes the ends of its range and a value whose bytes differ;
   TLC's integers end at 2^31 - 1, and so do the 32-bit fields here. *)

WireWords == {0, 258, 65535}
WireLongs == {0, 16909060, 2147483647}
WireFlags == {{}, {FLAG_KEYFRAME, FLAG_FIRST}, {FlagNames[i] : i \in 1..Len(FlagNames)}}
WirePayloads == {<<>>, <<222, 173, 190, 239>>}

WireHeaders ==
    [magic : {0, PROTOCOL_MAGIC}, version : {PROTOCOL_VERSION, 99}, type : {VIDEO_DATA, HELLO, 255},
     flags : WireFlags, sequence : WireLongs, timestamp_us : WireLongs,
     frame_id : WireWords, frag_idx : {0, 3, 255}, frag_total : {0, 5, 255}]

WireInit ==
    /\ wireIn \in {<<[header |-> h, payload |-> pl]>> : h \in WireHeaders, pl \in WirePayloads}
    /\ wireBytes = <<>>
    /\ wireOut = <<>>
    /\ lastRaw = <<>>

WireSerialize ==
    /\ wireBytes = <<>>
    /\ wireBytes' = serialize(wireIn[1])
    /\ UNCHANGED <<wireIn, wireOut, lastRaw>>

WireDeserialize ==
    /\ wireBytes # <<>>
    /\ wireOut = <<>>
    /\ wireOut' = <<deserialize(wireBytes)>>
    /\ UNCHANGED <<wireIn, wireBytes, lastRaw>>

SpecWireInit ==
    /\ AsmIdle /\ QueueIdle /\ RingInit /\ ConnIdle /\ HostIdle /\ NetIdle
    /\ UpIdle /\ LockIdle /\ StopIdle /\ DecInit /\ TestIdle
    /\ WireInit
    /\ WireElseIdle

nonWireVars == <<coreVars, upVars, lockVars, stopVars, decVars, testVars, nonWireMore>>

WireNext ==
    \/ WireSerialize /\ UNCHANGED nonWireVars
    \/ WireDeserialize /\ UNCHANGED nonWireVars

SpecWire == SpecWireInit /\ [][WireNext]_vars

\* C22: a header written by to_network and read back by from_network has the
\* same nine fields, its serialized form is exactly HEADER_SIZE = 16 bytes, and
\* a packet serialized and then deserialized has the same header and payload.
C22_WireRoundTrip ==
    /\ wireIn # <<>> =>
          /\ Len(to_network(wireIn[1].header)) = HEADER_SIZE
          /\ from_network(to_network(wireIn[1].header)) = wireIn[1].header
    /\ wireBytes # <<>> => Len(wireBytes) = HEADER_SIZE + Len(wireIn[1].payload)
    /\ wireOut # <<>> => wireOut[1] = wireIn[1]

\* a packet whose fields fill more than one byte has made the round trip
C22_Witness ==
    /\ wireOut # <<>>
    /\ wireIn[1].payload # <<>>
    /\ wireIn[1].header.sequence > 65535
    /\ wireIn[1].header.frame_id = 258
    /\ wireIn[1].header.flags # {}
    /\ wireOut[1].header.frame_id = 258

-----------------------------------------------------------------------------
(* Host and viewer: poll() on datagrams as recv_from returns them, bytes that
   deserialize() has yet to read. Some are well-formed; of each there is one
   cut to 15 bytes, one whose magic and one whose version is another, and
   there is the datagram of no bytes at all. *)

\* the first byte replaced
WithMagic(raw, m) == [raw EXCEPT ![1] = m]
\* the second byte replaced
WithVersion(raw, v) == [raw EXCEPT ![2] = v]
\* all but the last byte of the header
CutShort(raw) == SubSeq(raw, 1, HEADER_SIZE - 1)

Malformations(raws) ==
    {<<>>} \cup {CutShort(raw) : raw \in raws}
           \cup {WithMagic(raw, 0) : raw \in raws}
           \cup {WithVersion(raw, PROTOCOL_VERSION + 1) : raw \in raws}

\* fewer than HEADER_SIZE bytes, or a magic or a version that is not the protocol's
Malformed(raw) ==
    \/ Len(raw) < HEADER_SIZE
    \/ raw[1] # PROTOCOL_MAGIC
    \/ raw[2] # PROTOCOL_VERSION

\* a HELLO, and a NACK for fragment 1 of AsmKeyframe
HostMalformable ==
    {serialize(Bare(HELLO)),
     serialize(ControlPacket(NACK, 0, AsmKeyframe.frame_id,
                             NackPayload(AsmKeyframe.frame_id, 1) \o <<1>>))}

\* what the viewers send: these, a BYE and a PONG
HostWellFormed ==
    HostMalformable \cup {serialize(Bare(BYE)),
                          serialize(ControlPacket(PONG, 0, 0, PingPayload(0)))}

\* the first fragment of AsmKeyframe, and a PING
ViewerMalformable ==
    {serialize(fragment(AsmKeyframe, 0)[1]), serialize(ControlPacket(PING, 1, 0, PingPayload(0)))}

\* what the host sends: these, and the other fragments of AsmKeyframe
ViewerWellFormed ==
    ViewerMalformable \cup {serialize(q) : q \in SeqRange(fragment(AsmKeyframe, 0))}

\* the bytes the host and the viewer received last, the polls so far and who polled last
NoRaw == [host |-> <<>>, viewer |-> <<>>, n |-> 0, at |-> "none"]

\* Server::poll on the bytes raw from the endpoint e
RawHostPoll ==
    /\ lastRaw.n < MaxRawPolls
    /\ \E e \in Endpoints, raw \in HostWellFormed \cup Malformations(HostMalformable) :
          /\ HostPoll(<<[source |-> e, pkt |-> deserialize(raw)]>>)
          /\ lastRaw' = [lastRaw EXCEPT !.host = <<raw>>, !.n = @ + 1, !.at = "host"]
    /\ UNCHANGED <<wireIn, wireBytes, wireOut, nonWireMore>>
    /\ UNCHANGED <<asmVars, queueVars, ringVars, connVars, netVars, upVars, lockVars, stopVars,
                   decVars, testVars>>

\* Client::poll on the bytes raw
RawViewerPoll ==
    /\ lastRaw.n < MaxRawPolls
    /\ \E raw \in ViewerWellFormed \cup Malformations(ViewerMalformable) :
          /\ ViewerPoll(<<[id |-> 0, pkt |-> deserialize(raw)]>>)
          /\ lastRaw' = [lastRaw EXCEPT !.viewer = <<raw>>, !.n = @ + 1, !.at = "viewer"]
    /\ UNCHANGED <<now, srcPacket, feedLog, reportLog, checkCalls, bcastCount>>
    /\ UNCHANGED <<wireIn, wireBytes, wireOut, nonWireMore>>
    /\ UNCHANGED <<queueVars, ringVars, connVars, hostVars, upVars, lockVars, stopVars,
                   decVars, testVars>>

\* the host broadcasts the keyframe
RawBroadcast ==
    /\ last_keyframe_ = NoKeyframe
    /\ HostBroadcast(AsmKeyframe)
    /\ UNCHANGED nonHostVars

\* the viewer has connected and is the host's one peer
SpecMalformedInit ==
    /\ AsmIdle /\ QueueIdle /\ RingInit /\ NetIdle
    /\ UpIdle /\ LockIdle /\ StopIdle /\ DecInit /\ TestIdle
    /\ HostWithViewer
    /\ state_ = "Connected" /\ socketOk = TRUE /\ viewerConfig = DefaultConfig
    /\ connPc = "idle" /\ connRet = "none" /\ connFirst = <<>> /\ connCalls = 0
    /\ viewerSent = <<>>
    /\ wireIn = <<>> /\ wireBytes = <<>> /\ wireOut = <<>>
    /\ lastRaw = NoRaw
    /\ WireElseIdle

MalformedNext == RawHostPoll \/ RawViewerPoll \/ RawBroadcast

SpecMalformed == SpecMalformedInit /\ [][MalformedNext]_vars

\* C21: a datagram shorter than HEADER_SIZE bytes, or whose magic or version
\* is not the protocol's, is dropped by the host and by the viewer: the
\* host's peer table with its round trip times and its keyframe cache, and
\* the viewer's reassembler, the frames it has queued and its connection
\* state are as they were, and no datagram is sent in reply.
C21_MalformedDropped ==
    [][/\ (lastRaw'.n # lastRaw.n /\ lastRaw'.at = "host" /\ Malformed(lastRaw'.host[1])) =>
              /\ clients_' = clients_
              /\ last_keyframe_' = last_keyframe_
              /\ client_audio_assembler_' = client_audio_assembler_
              /\ lastPoll'.replies = <<>>
              /\ hostOut' = lastPoll'.pings
       /\ (lastRaw'.n # lastRaw.n /\ lastRaw'.at = "viewer" /\ Malformed(lastRaw'.viewer[1])) =>
              /\ pending_' = pending_
              /\ emitLog' = emitLog
              /\ nackLog' = nackLog
              /\ fedLog' = fedLog
              /\ state_' = state_
              /\ toHost' = toHost
              /\ netSeq' = netSeq
      ]_vars

\* each endpoint has state to lose, and the last datagram each received was
\* malformed: the host's was too short, the viewer's had another version
C21_Witness ==
    /\ clients_ # <<>>
    /\ last_keyframe_ # NoKeyframe
    /\ pending_ # EmptyMap
    /\ lastRaw.host # <<>> /\ lastRaw.host[1] # <<>> /\ Len(lastRaw.host[1]) < HEADER_SIZE
    /\ lastRaw.viewer # <<>> /\ Len(lastRaw.viewer[1]) >= HEADER_SIZE
    /\ lastRaw.viewer[1][1] = PROTOCOL_MAGIC /\ lastRaw.viewer[1][2] # PROTOCOL_VERSION

-----------------------------------------------------------------------------
(* MPSC queue: close(), and what try_pop, wait_pop and is_closed return.
   The scheduler lets a notified consumer, the closing thread and a producer
   that holds the mutex run; a timeout may expire at any time or never. *)

\* ThreadSafeQueue::is_closed, under the lock
is_closed(q, closed) == closed /\ q = <<>>

\* a default-constructed queue: it is unbounded
SpecCloseInit == AsmIdle /\ RingInit /\ ConnIdle /\ HostIdle /\ NetIdle /\ ExtIdle /\ QueueInit(0)

\* the front of q as an optional
FrontOf(q) == IF q = <<>> THEN <<>> ELSE <<q[1]>>

\* the step is a try_pop or a wait_pop that returns: what it returned is
\* written down when the queue was closed
PopReturns(op, how) ==
    IF closed_ /\ cpc' = "idle"
        THEN queueRet' = [op |-> op,
                          ret |-> IF popLog' # popLog THEN <<popLog'[Len(popLog')]>> ELSE <<>>,
                          front |-> FrontOf(queue_), how |-> how]
        ELSE UNCHANGED queueRet

\* a thread calls is_closed()
IsClosedCall ==
    /\ mutex_ = "free"
    /\ queueRet' = [op |-> "is_closed", ret |-> is_closed(queue_, closed_),
                    front |-> [empty |-> queue_ = <<>>, closed |-> closed_], how |-> "at once"]
    /\ UNCHANGED queueVars

nonRetVars == <<asmVars, ringVars, connVars, hostVars, netVars,
                upVars, lockVars, stopVars, decVars, testVars, nonRetMore>>

CloseWake == WaitPopWake /\ PopReturns("wait_pop", "notified") /\ UNCHANGED nonRetVars
CloseReturn == CloseNotify /\ UNCHANGED <<queueRet, nonRetVars>>
\* a producer inside push()'s lock goes on to its end
CloseEvict == \E p \in Producers : PushEvict(p) /\ UNCHANGED <<queueRet, nonRetVars>>
CloseEnqueue == \E p \in Producers : PushEnqueue(p) /\ UNCHANGED <<queueRet, nonRetVars>>

CloseNext ==
    \/ \E p \in Producers :
          pcount[p] < MaxClosePushes /\ PushLock(p) /\ UNCHANGED <<queueRet, nonRetVars>>
    \/ CloseEvict
    \/ CloseEnqueue
    \/ \E p \in Producers : PushNotify(p) /\ UNCHANGED <<queueRet, nonRetVars>>
    \/ TryPop /\ PopReturns("try_pop", "at once") /\ UNCHANGED nonRetVars
    \/ WaitPopEnter /\ PopReturns("wait_pop", "at once") /\ UNCHANGED nonRetVars
    \/ CloseWake
    \/ WaitPopTimeout /\ PopReturns("wait_pop", "timeout") /\ UNCHANGED nonRetVars
    \/ CloseLocked /\ UNCHANGED <<queueRet, nonRetVars>>
    \/ CloseReturn
    \/ IsClosedCall /\ UNCHANGED nonRetVars

SpecClose ==
    /\ SpecCloseInit
    /\ [][CloseNext]_vars
    /\ WF_vars(CloseWake) /\ WF_vars(CloseReturn) /\ WF_vars(CloseEvict) /\ WF_vars(CloseEnqueue)

\* C23: a consumer blocked in wait_pop on a closed queue returns, whether a
\* timeout expires or not, and no consumer is blocked once close() has
\* returned; a try_pop or wait_pop of a closed queue returns the front item,
\* and None when the queue is empty; is_closed() returns true exactly when
\* the queue is closed and empty.
C23_CloseWakesAndDrains ==
    /\ (cpc = "waiting" /\ closed_) ~> (cpc = "idle")
    /\ [](clpc = "done" => cpc # "waiting")
    /\ [](queueRet.op \in {"try_pop", "wait_pop"} => queueRet.ret = queueRet.front)
    /\ [](queueRet.op = "is_closed" =>
              (queueRet.ret <=> (queueRet.front.closed /\ queueRet.front.empty)))

\* the items of both producers were popped, close() has returned, and a
\* consumer that had blocked in wait_pop was notified and returned None
C23_Witness ==
    /\ queueRet.op = "wait_pop"
    /\ queueRet.how = "notified"
    /\ queueRet.ret = <<>>
    /\ clpc = "done"
    /\ Len(popLog) = 2

-----------------------------------------------------------------------------
(* Host: the peer table under any sequence of HELLO and BYE, with the
   broadcasts and the PINGs in between *)

\* no HELLO and no BYE from anybody yet
NoShake == [e \in Endpoints |-> "none"]

\* lastShake after poll() received r
ShakeAfter(r) ==
    IF r = <<>> \/ ~is_valid(r[1].pkt.header) THEN lastShake
    ELSE IF r[1].pkt.header.type = HELLO THEN [lastShake EXCEPT ![r[1].source] = "HELLO"]
    ELSE IF r[1].pkt.header.type = BYE THEN [lastShake EXCEPT ![r[1].source] = "BYE"]
    ELSE lastShake

nonPeersVars == <<asmVars, queueVars, ringVars, connVars, netVars,
                  upVars, lockVars, stopVars, decVars, testVars, nonShakeMore>>

PeersPoll ==
    \E r \in HostInputs({Bare(HELLO), Bare(BYE), Bare(PONG), BadMagic}) :
        /\ HostPoll(r)
        /\ lastShake' = ShakeAfter(r)
        /\ UNCHANGED nonPeersVars

PeersBroadcast == HostBroadcast(AsmKeyframe) /\ UNCHANGED <<lastShake, nonPeersVars>>

PeersTick == HostTick /\ UNCHANGED <<lastShake, nonPeersVars>>

SpecPeersInit ==
    /\ AsmIdle /\ QueueIdle /\ RingInit /\ ConnIdle /\ NetIdle
    /\ UpIdle /\ LockIdle /\ StopIdle /\ DecInit /\ TestIdle /\ ShakeElseIdle
    /\ HostIdle
    /\ lastShake = NoShake

PeersNext == PeersPoll \/ PeersBroadcast \/ PeersTick

SpecPeers == SpecPeersInit /\ [][PeersNext]_vars

\* the endpoints of the peer table
PeersOf(cl) == {cl[i].endpoint : i \in 1..Len(cl)}

\* the step is a poll() that received a valid datagram of this type
Polls(type) ==
    /\ lastPoll'.rcv # <<>>
    /\ lastPoll' # lastPoll \/ lastShake' # lastShake \/ hostOut' # hostOut
    /\ is_valid(lastPoll'.rcv[1].pkt.header)
    /\ lastPoll'.rcv[1].pkt.header.type = type

\* the datagrams of a broadcast and the PINGs
IsStreamed(d) == d.pkt.header.type \in {VIDEO_DATA, AUDIO_DATA, PING}

\* C24: the peer table holds exactly the endpoints whose most recent HELLO or
\* BYE was a HELLO, each once; a HELLO from a peer and a BYE from an endpoint
\* that is no peer leave the table as it is, a BYE removes its sender; and
\* every broadcast fragment and every PING goes to an endpoint whose most
\* recent HELLO or BYE, when it is sent, is a HELLO.
C24_PeerTable ==
    /\ [](/\ PeersOf(clients_) = {e \in Endpoints : lastShake[e] = "HELLO"}
          /\ \A i, j \in 1..Len(clients_) :
                clients_[i].endpoint = clients_[j].endpoint => i = j)
    /\ [][/\ (Polls(HELLO) /\ IsPeer(clients_, lastPoll'.rcv[1].source)) => clients_' = clients_
          /\ (Polls(BYE) /\ ~IsPeer(clients_, lastPoll'.rcv[1].source)) => clients_' = clients_
          /\ Polls(BYE) => ~IsPeer(clients_', lastPoll'.rcv[1].source)
          /\ (hostOut' # hostOut \/ lastPoll' # lastPoll) =>
                \A i \in 1..Len(hostOut') :
                    IsStreamed(hostOut'[i]) => lastShake[hostOut'[i].to] = "HELLO"
         ]_vars

\* v1 said HELLO and then BYE, v2 is a peer, and the keyframe just broadcast
\* went to v2
C24_Witness ==
    /\ lastShake["v1"] = "BYE"
    /\ lastShake["v2"] = "HELLO"
    /\ lastPoll.before # <<>> /\ lastPoll.before[1].endpoint = "v1"
    /\ hostOut # <<>>
    /\ \A i \in 1..Len(hostOut) :
          hostOut[i].pkt.header.type = VIDEO_DATA /\ hostOut[i].to = "v2"

-----------------------------------------------------------------------------
(* Host: the adaptive bitrate. HostSession::check_adaptive_bitrate runs on
   the recv thread after every poll(); VideoEncoder::set_bitrate tears the
   encoder down and runs init() again, which may fail. Round trip times are
   in ms; the bitrates are below 2^32 / 3, so that target_bitrate_ * 3 does
   not wrap. *)

\* the period of the check, in ms
BITRATE_CHECK_MS == 5000
\* the clock's step, in ms
RateTickMs == 2500
\* the round trip times above which the bitrate is reduced, in ms
RTT_HIGH_MS == 100
RTT_MID_MS == 50

\* the bitrates start() is called with
Targets == {DefaultBitrate, 5}
\* the round trip times a PONG leaves in a peer's record
RttSamples == {0, 30, RTT_MID_MS, RTT_MID_MS + 1, RTT_HIGH_MS, RTT_HIGH_MS + 1}

RECURSIVE MaxRttFrom(_, _)
\* Server::max_rtt_ms: the loop over clients_, max_rtt being 0.0 at first
MaxRttFrom(cl, max_rtt) ==
    IF cl = <<>> THEN max_rtt
    ELSE MaxRttFrom(Tail(cl),
                    IF cl[1].rtt_valid /\ cl[1].rtt_ms > max_rtt THEN cl[1].rtt_ms ELSE max_rtt)

max_rtt_ms(cl) == MaxRttFrom(cl, 0)

\* Server::client_count
client_count(cl) == Len(cl)

\* check_adaptive_bitrate: desired_bitrate
DesiredBitrate(target, rtt) ==
    IF rtt > RTT_HIGH_MS THEN target \div 2
    ELSE IF rtt > RTT_MID_MS THEN (target * 3) \div 4
    ELSE target

\* VideoEncoder::set_bitrate, init_ok being whether its init() succeeds: what
\* it returns, the encoder after it, and the calls of init() and
\* request_keyframe() it made
set_bitrate(enc, bitrate, init_ok) ==
    IF bitrate = enc.bitrate_ THEN [ret |-> TRUE, enc |-> enc, inits |-> 0, kfreq |-> FALSE]
    ELSE IF ~enc.initialized_ THEN [ret |-> FALSE, enc |-> enc, inits |-> 0, kfreq |-> FALSE]
    ELSE [ret |-> init_ok,
          enc |-> [bitrate_ |-> bitrate, initialized_ |-> init_ok,
                   force_keyframe_ |-> enc.force_keyframe_ \/ init_ok],
          inits |-> 1, kfreq |-> init_ok]

\* HostSession::check_adaptive_bitrate
check_adaptive_bitrate(init_ok) ==
    IF rateNow - last_bitrate_check_ < BITRATE_CHECK_MS
        THEN UNCHANGED <<last_bitrate_check_, current_bitrate_, encoder_, lastAbr>>
    ELSE
      LET rtt == max_rtt_ms(clients_)
          desired == DesiredBitrate(target_bitrate_, rtt)
          went == client_count(clients_) # 0 /\ rtt > 0
          sb == IF went /\ desired # current_bitrate_
                    THEN set_bitrate(encoder_, desired, init_ok)
                    ELSE [ret |-> FALSE, enc |-> encoder_, inits |-> 0, kfreq |-> FALSE]
      IN /\ last_bitrate_check_' = rateNow
         /\ encoder_' = sb.enc
         /\ current_bitrate_' = IF sb.ret THEN desired ELSE current_bitrate_
         /\ lastAbr' = [n |-> lastAbr.n + 1, peers |-> client_count(clients_), rtt |-> rtt,
                        desired |-> desired, before |-> current_bitrate_,
                        called |-> went /\ desired # current_bitrate_,
                        inits |-> sb.inits, ok |-> sb.ret, kfreq |-> sb.kfreq]

nonAbrVars == <<asmVars, queueVars, ringVars, connVars, netVars,
                upVars, lockVars, stopVars, decVars, testVars, nonRateMore>>
hostButClients == <<sequence_, hostConfig, last_keyframe_, hostNow, last_ping_time_, silent,
                    hostOut, lastPoll>>

\* the recv thread comes to check_adaptive_bitrate
AbrCheck ==
    /\ lastAbr.n < MaxAbrChecks
    /\ \E init_ok \in BOOLEAN : check_adaptive_bitrate(init_ok)
    /\ UNCHANGED <<target_bitrate_, rateNow, hostVars, nonAbrVars>>

\* the clock advances
AbrTick ==
    /\ rateNow - last_bitrate_check_ < BITRATE_CHECK_MS
    /\ rateNow' = rateNow + RateTickMs
    /\ UNCHANGED <<target_bitrate_, current_bitrate_, last_bitrate_check_, encoder_, lastAbr,
                   hostVars, nonAbrVars>>

\* the viewer's HELLO is handled
AbrHello ==
    /\ clients_ = <<>>
    /\ clients_' = <<NewClient(Viewer)>>
    /\ UNCHANGED <<hostButClients, rateVars, nonAbrVars>>

\* a PONG of the viewer is handled: its round trip time is stored
AbrPong ==
    /\ \E rtt \in RttSamples : clients_' = StoreRtt(clients_, Viewer, rtt)
    /\ clients_' # clients_
    /\ UNCHANGED <<hostButClients, rateVars, nonAbrVars>>

\* the viewer's BYE is handled
AbrBye ==
    /\ clients_ # <<>>
    /\ clients_' = EraseEndpoint(clients_, Viewer)
    /\ UNCHANGED <<hostButClients, rateVars, nonAbrVars>>

\* VideoEncoder::encode: force_keyframe_.exchange(false)
AbrEncode ==
    /\ encoder_.initialized_ /\ encoder_.force_keyframe_
    /\ encoder_' = [encoder_ EXCEPT !.force_keyframe_ = FALSE]
    /\ UNCHANGED <<target_bitrate_, current_bitrate_, last_bitrate_check_, rateNow, lastAbr,
                   hostVars, nonAbrVars>>

SpecRateInit ==
    /\ AsmIdle /\ QueueIdle /\ RingInit /\ ConnIdle /\ HostIdle /\ NetIdle
    /\ UpIdle /\ LockIdle /\ StopIdle /\ DecInit /\ TestIdle /\ RateElseIdle
    /\ \E bitrate \in Targets : RateInit(bitrate)

RateNext == AbrCheck \/ AbrTick \/ AbrHello \/ AbrPong \/ AbrBye \/ AbrEncode

SpecRate == SpecRateInit /\ [][RateNext]_vars

\* some peer has a round trip time
HasValidRtt(cl) == \E i \in 1..Len(cl) : cl[i].rtt_valid

\* C25: at a check past the 5 s gate with a peer and a valid round trip time,
\* desired is target / 2, target * 3 / 4 or target by the largest round trip
\* time; when it differs from current the encoder is set up again at desired,
\* a keyframe is requested and current becomes desired, or the set-up fails
\* and current stays; without a peer or a valid round trip time the check
\* changes nothing; current is one of the three bitrates at all times.
C25_AdaptiveBitrate ==
    /\ [](current_bitrate_ \in {target_bitrate_, (target_bitrate_ * 3) \div 4,
                                target_bitrate_ \div 2})
    /\ [][lastAbr'.n # lastAbr.n =>
            IF clients_ # <<>> /\ HasValidRtt(clients_)
                THEN /\ lastAbr'.desired = DesiredBitrate(target_bitrate_, lastAbr'.rtt)
                     /\ lastAbr'.desired # current_bitrate_ =>
                           \/ /\ lastAbr'.inits = 1 /\ lastAbr'.kfreq
                              /\ encoder_'.initialized_ /\ encoder_'.bitrate_ = lastAbr'.desired
                              /\ current_bitrate_' = lastAbr'.desired
                           \/ /\ lastAbr'.inits = 1 /\ ~lastAbr'.ok
                              /\ current_bitrate_' = current_bitrate_
                     /\ lastAbr'.desired = current_bitrate_ =>
                           UNCHANGED <<current_bitrate_, encoder_>>
                ELSE UNCHANGED <<current_bitrate_, encoder_>>
         ]_vars

-----------------------------------------------------------------------------
(* Host: the keyframe cache between broadcast() on the send thread and
   handle_nack() on the poll thread, one step per lock, per store to
   last_keyframe_ and per turn of handle_nack's loop *)

\* a handle_nack that takes no lock
NackLockSkipped(t) == NoLock

\* handle_nack: std::lock_guard lock(keyframe_mutex_)
NackLock(t) == LockKeyframe(t)

\* the end of handle_nack's lock_guard
NackUnlock(t) ==
    /\ keyframe_mutex_' = IF keyframe_mutex_ = t THEN "free" ELSE keyframe_mutex_
    /\ UNCHANGED clients_mutex_

\* the NACKs the viewer sends: for either keyframe or for a frame that is
\* none, with indices inside and outside the fragment list; one that
\* announces more indices than it holds, and one of a header and a half
\* NackPayload
NackRequests ==
    {ControlPacket(NACK, 0, f, NackPayload(f, Len(m)) \o m) :
        f \in {AsmKeyframe.frame_id, AsmKeyframe2.frame_id, 0, 9},
        m \in {<<0>>, <<2, 1>>, <<1, Len(fragment(AsmKeyframe, 0))>>}}
      \cup {ControlPacket(NACK, 0, AsmKeyframe.frame_id, NackPayload(AsmKeyframe.frame_id, 2) \o <<1>>),
            ControlPacket(NACK, 0, AsmKeyframe.frame_id,
                          SubSeq(NackPayload(AsmKeyframe.frame_id, 1), 1, NackPayloadSize - 1))}

\* the keyframe broadcast last, as the cache is to hold it
LastKeyframe == IF kfBroadcast = <<>> THEN NoKeyframe ELSE kfBroadcast[Len(kfBroadcast)]

\* broadcast(): auto fragments = fragmenter_.fragment(packet, sequence_)
CacheFragment ==
    /\ bcast.pc = "idle"
    /\ bcastCount < Len(BroadcastList)
    /\ LET packet == BroadcastList[bcastCount + 1]
           fragments == fragment(packet, sequence_)
       IN /\ bcast' = [pc |-> IF packet.type = "VideoKeyframe" THEN "kf_lock" ELSE "send",
                       packet |-> <<packet>>, fragments |-> fragments]
          /\ sequence_' = (sequence_ + Len(fragments)) % SEQ_MOD
    /\ bcastCount' = bcastCount + 1
    /\ UNCHANGED <<last_keyframe_, hostOut, nack, kfBroadcast, nackDone, lockVars>>

\* broadcast(): std::lock_guard lock(keyframe_mutex_)
CacheLock ==
    /\ bcast.pc = "kf_lock"
    /\ LockKeyframe("send")
    /\ bcast' = [bcast EXCEPT !.pc = "store_id"]
    /\ kfBroadcast' = Append(kfBroadcast, [frame_id |-> bcast.packet[1].frame_id,
                                           fragments |-> bcast.fragments])
    /\ UNCHANGED <<last_keyframe_, sequence_, hostOut, bcastCount, nack, nackDone, lockPc, lockLeft>>

\* broadcast(): last_keyframe_.frame_id = packet.frame_id
CacheStoreId ==
    /\ bcast.pc = "store_id"
    /\ last_keyframe_' = [last_keyframe_ EXCEPT !.frame_id = bcast.packet[1].frame_id]
    /\ bcast' = [bcast EXCEPT !.pc = "store_frags"]
    /\ UNCHANGED <<sequence_, hostOut, bcastCount, nack, kfBroadcast, nackDone, lockVars>>

\* broadcast(): last_keyframe_.fragments = fragments, and the end of the block
CacheStoreFragments ==
    /\ bcast.pc = "store_frags"
    /\ last_keyframe_' = [last_keyframe_ EXCEPT !.fragments = bcast.fragments]
    /\ UnlockKeyframe("send")
    /\ bcast' = [bcast EXCEPT !.pc = "send"]
    /\ UNCHANGED <<sequence_, hostOut, bcastCount, nack, kfBroadcast, nackDone, lockPc, lockLeft>>

\* broadcast(): the loop over clients_, under clients_mutex_
CacheSend ==
    /\ bcast.pc = "send"
    /\ clients_mutex_ = "free"
    /\ hostOut' = ToAll(clients_, bcast.fragments)
    /\ bcast' = [pc |-> "idle", packet |-> <<>>, fragments |-> <<>>]
    /\ UNCHANGED <<last_keyframe_, sequence_, bcastCount, nack, kfBroadcast, nackDone, lockVars>>

\* handle_nack returns: what it has sent is written down
NackReturns(pkt, resent) ==
    /\ nack' = [pc |-> "idle", pkt |-> <<>>, i |-> 0, offset |-> 0, resent |-> <<>>,
                n |-> nack.n + 1]
    /\ nackDone' = <<[pkt |-> pkt, resent |-> resent, kf |-> LastKeyframe]>>

\* poll() has received a NACK: handle_nack's test of the payload's size
CacheNackBegin ==
    /\ nack.pc = "idle"
    /\ nack.n < MaxNacks
    /\ \E pkt \in NackRequests :
          IF Len(pkt.payload) < NackPayloadSize
              THEN NackReturns(pkt, <<>>)
              ELSE /\ nack' = [nack EXCEPT !.pc = "lock", !.pkt = <<pkt>>]
                   /\ UNCHANGED nackDone
    /\ UNCHANGED <<last_keyframe_, sequence_, hostOut, bcastCount, bcast, kfBroadcast, lockVars>>

\* handle_nack: the lock
CacheNackLock ==
    /\ nack.pc = "lock"
    /\ NackLock("poll")
    /\ nack' = [nack EXCEPT !.pc = "locked"]
    /\ UNCHANGED <<last_keyframe_, sequence_, hostOut, bcastCount, bcast, kfBroadcast, nackDone,
                   lockPc, lockLeft>>

\* handle_nack: if (np.frame_id != last_keyframe_.frame_id) return
CacheNackCompare ==
    /\ nack.pc = "locked"
    /\ IF nack.pkt[1].payload[1] # last_keyframe_.frame_id
           THEN NackReturns(nack.pkt[1], <<>>) /\ NackUnlock("poll")
           ELSE /\ nack' = [nack EXCEPT !.pc = "loop", !.i = 0, !.offset = NackPayloadSize]
                /\ UNCHANGED <<nackDone, keyframe_mutex_, clients_mutex_>>
    /\ UNCHANGED <<last_keyframe_, sequence_, hostOut, bcastCount, bcast, kfBroadcast,
                   lockPc, lockLeft>>

\* handle_nack: one turn of the loop, or its end
CacheNackLoop ==
    /\ nack.pc = "loop"
    /\ LET payload == nack.pkt[1].payload
       IN IF nack.i >= payload[2] \/ nack.offset + 1 > Len(payload)
              THEN NackReturns(nack.pkt[1], nack.resent) /\ NackUnlock("poll")
              ELSE LET frag_idx == payload[nack.offset + 1]
                   IN /\ nack' = [nack EXCEPT
                                     !.i = @ + 1, !.offset = @ + 1,
                                     !.resent = IF frag_idx < Len(last_keyframe_.fragments)
                                                    THEN Append(@, last_keyframe_.fragments[frag_idx + 1])
                                                    ELSE @]
                      /\ UNCHANGED <<nackDone, keyframe_mutex_, clients_mutex_>>
    /\ UNCHANGED <<last_keyframe_, sequence_, hostOut, bcastCount, bcast, kfBroadcast,
                   lockPc, lockLeft>>

nonCacheVars == <<asmVars, queueVars, ringVars, connVars,
                  clients_, hostConfig, hostNow, last_ping_time_, silent, lastPoll,
                  toViewer, toHost, netSeq, nackLog, fedLog, emitEids, lastViewerPoll,
                  upVars, stopVars, decVars, testVars, nonCacheMore>>

SpecCacheInit ==
    /\ AsmIdle /\ QueueIdle /\ RingInit /\ ConnIdle /\ NetIdle
    /\ UpIdle /\ LockIdle /\ StopIdle /\ DecInit /\ TestIdle /\ CacheElseIdle
    /\ HostWithViewer
    /\ CacheIdle

CacheNext ==
    \/ CacheFragment /\ UNCHANGED nonCacheVars
    \/ CacheLock /\ UNCHANGED nonCacheVars
    \/ CacheStoreId /\ UNCHANGED nonCacheVars
    \/ CacheStoreFragments /\ UNCHANGED nonCacheVars
    \/ CacheSend /\ UNCHANGED nonCacheVars
    \/ CacheNackBegin /\ UNCHANGED nonCacheVars
    \/ CacheNackLock /\ UNCHANGED nonCacheVars
    \/ CacheNackCompare /\ UNCHANGED nonCacheVars
    \/ CacheNackLoop /\ UNCHANGED nonCacheVars

SpecCache == SpecCacheInit /\ [][CacheNext]_vars

\* the indices a NACK asks for: num_missing of them, as far as the payload goes
RequestedBy(payload) ==
    SubSeq(payload, NackPayloadSize + 1, Min(Len(payload), NackPayloadSize + payload[2]))

RECURSIVE FragmentsAt(_, _)
\* the fragments of the list at these indices, those outside left out
FragmentsAt(fragments, indices) ==
    IF indices = <<>> THEN <<>>
    ELSE (IF indices[1] < Len(fragments) THEN <<fragments[indices[1] + 1]>> ELSE <<>>)
             \o FragmentsAt(fragments, Tail(indices))

\* C26: whenever broadcast() is not inside its block under keyframe_mutex_,
\* the cache holds the frame_id and the fragments of the keyframe broadcast
\* last; a handle_nack whose payload is shorter than a NackPayload or names
\* another frame_id sends nothing; one that names the cached frame_id sends
\* the cached fragments at the indices asked for that are inside the list,
\* as they were broadcast, and nothing else.
C26_NackFromCache ==
    /\ keyframe_mutex_ # "send" => last_keyframe_ = LastKeyframe
    /\ nackDone # <<>> =>
          LET d == nackDone[1]
          IN IF Len(d.pkt.payload) < NackPayloadSize \/ d.pkt.payload[1] # d.kf.frame_id
                 THEN d.resent = <<>>
                 ELSE d.resent = FragmentsAt(d.kf.fragments, RequestedBy(d.pkt.payload))

\* both keyframes were broadcast, the second is being sent to the peers, and
\* a second NACK, for the second keyframe, was answered with its fragment
C26_Witness ==
    /\ Len(kfBroadcast) = 2
    /\ bcast.pc = "send"
    /\ nackDone # <<>>
    /\ nackDone[1].kf.frame_id = AsmKeyframe2.frame_id
    /\ nackDone[1].resent = <<kfBroadcast[2].fragments[1]>>
    /\ nackDone[1].resent[1].payload = AsmKeyframe2.data
    /\ nack.n = 2

-----------------------------------------------------------------------------
(* Reassembler: fragments whose frag_total is 0 or whose frag_idx is not
   below frag_total, among the fragments of a keyframe *)

\* frag_idx = frag_total, for a key of its own and for the keyframe's key
IdxBeyond == [header |-> Header(VIDEO_DATA, {FLAG_KEYFRAME}, 0, 0, 9, 2, 2), payload |-> <<1>>]
IdxBeyondOfKeyframe ==
    [header |-> Header(VIDEO_DATA, {FLAG_KEYFRAME}, 0, 0, AsmKeyframe.frame_id,
                       Len(fragment(AsmKeyframe, 0)), Len(fragment(AsmKeyframe, 0))),
     payload |-> <<1>>]
\* frag_total = 0
ZeroTotal == [header |-> Header(VIDEO_DATA, {FLAG_KEYFRAME}, 0, 0, 9, 0, 0), payload |-> <<1>>]

RejectPackets == SeqRange(fragment(AsmKeyframe, 0)) \cup {IdxBeyond, IdxBeyondOfKeyframe, ZeroTotal}

RejectFeed ==
    \E packet \in RejectPackets :
        /\ Len(feedLog) < MaxFeeds
        /\ LogFeed(packet, 0)
        /\ UNCHANGED nonTestVars

RejectNext == RejectFeed \/ AsmTick

SpecReject == SpecAsmInit /\ [][RejectNext]_vars

\* the header's indices are not those of a fragment
BadIndices(h) == h.frag_total = 0 \/ h.frag_idx >= h.frag_total

\* C27: a feed() of a fragment with frag_total = 0 or frag_idx >= frag_total
\* returns None and leaves the reassembler as it was: no entry is created.
C27_BadIndicesRejected ==
    [][(Len(feedLog') > Len(feedLog) /\ BadIndices(feedLog'[Len(feedLog')].pkt.header)) =>
          /\ feedResults'[Len(feedResults')] = <<>>
          /\ pending_' = pending_]_vars

-----------------------------------------------------------------------------
(* Fragmenter: fragment(encoded, sequence) and the caller's counter, for
   packets of every size up to one fragment more than the 8-bit fields can
   count (tests/test_packet_roundtrip.cpp, SequenceNumberIncrement) *)

\* fragmenter.fragment(p, seq): sequence++ once per fragment built
CountedFragment ==
    /\ ~fragResult.called
    /\ \E call \in FragmentCalls(srcPacket) :
          LET fragments == IF call.aborted THEN <<>> ELSE fragment(srcPacket, sequence_)
          IN /\ fragResult' = [called |-> TRUE, aborted |-> call.aborted,
                               fragments |-> fragments, seq |-> sequence_]
             /\ sequence_' = IF call.aborted THEN sequence_
                             ELSE (sequence_ + Len(fragments)) % SEQ_MOD
    /\ UNCHANGED <<frames, feedResults, purgeLog, asmVars>>
    /\ UNCHANGED <<clients_, hostConfig, last_keyframe_, hostNow, last_ping_time_, silent,
                   hostOut, lastPoll>>
    /\ UNCHANGED <<queueVars, ringVars, connVars, netVars, upVars, lockVars, stopVars,
                   decVars, moreVars>>

\* the caller's counter is anywhere
SpecCountedInit ==
    /\ AsmInit /\ srcPacket \in FragmentPackets
    /\ QueueIdle /\ RingInit /\ ConnIdle /\ NetIdle /\ ExtIdle
    /\ \E seq \in 0..(SEQ_MOD - 1) :
          /\ sequence_ = seq
          /\ clients_ = <<>> /\ hostConfig = [params |-> WelcomeParams, codec_data |-> <<1>>]
          /\ last_keyframe_ = NoKeyframe /\ hostNow = 0 /\ last_ping_time_ = 0
          /\ silent = {} /\ hostOut = <<>> /\ lastPoll = NoPoll

SpecCounted == SpecCountedInit /\ [][CountedFragment]_vars

\* C28: fragment(P, seq) gives n = ceil(|P.data| / MAX_FRAGMENT_DATA)
\* fragments; fragment i carries frag_idx = i, frag_total = n, P's frame_id,
\* VIDEO_DATA for a video frame and AUDIO_DATA for audio, KEYFRAME exactly for
\* a VideoKeyframe, FIRST exactly on i = 0, LAST exactly on i = n - 1 and the
\* sequence seq + i; the caller's counter has advanced by n, and for empty
\* data there is no fragment and the counter is as it was.
C28_FragmentHeaders ==
    fragResult.called =>
        LET n == NumFrags(Len(srcPacket.data))
            fr == fragResult.fragments
        IN /\ ~fragResult.aborted
           /\ Len(fr) = n
           /\ sequence_ = (fragResult.seq + n) % SEQ_MOD
           /\ \A i \in 0..(n - 1) :
                 LET h == fr[i + 1].header
                 IN /\ h.frag_idx = i
                    /\ h.frag_total = n
                    /\ h.frame_id = srcPacket.frame_id
                    /\ h.type = (IF srcPacket.type = "Audio" THEN AUDIO_DATA ELSE VIDEO_DATA)
                    /\ (FLAG_KEYFRAME \in h.flags) <=> (srcPacket.type = "VideoKeyframe")
                    /\ (FLAG_FIRST \in h.flags) <=> (i = 0)
                    /\ (FLAG_LAST \in h.flags) <=> (i = n - 1)
                    /\ h.sequence = (fragResult.seq + i) % SEQ_MOD
           /\ srcPacket.data = <<>> => fr = <<>> /\ sequence_ = fragResult.seq

-----------------------------------------------------------------------------
(* SPSC ring: what it holds (tests/test_ring_buffer.cpp, FullBuffer and
   WrapAround) *)

\* the calls of try_push that have returned
PushesReturned == IF prodPc = "idle" THEN prodCalls ELSE prodCalls - 1

\* this step is a try_push returning false
PushRefused == pushFail' # pushFail

\* C29: a ring of Capacity N holds at most N - 1 elements. As long as nothing
\* was popped, the first N - 1 calls of try_push succeed and every later one
\* returns false; a try_push that returns false leaves the slots and both
\* indices as they were; size() is within 0..N-1 and is the number of values
\* pushed and not yet popped, whatever the number of times head_ and tail_
\* have wrapped around.
C29_RingHolds ==
    /\ [](/\ size(head_, tail_) \in 0..(Capacity - 1)
          /\ size(head_, tail_) = Len(pushOk) - Len(ringPopLog)
          /\ tailStores = 0 =>
                /\ Len(pushOk) = (IF PushesReturned < Capacity THEN PushesReturned
                                  ELSE Capacity - 1)
                /\ \A i \in 1..Len(pushOk) : pushOk[i] = i
                /\ pushFail = Capacity..PushesReturned)
    /\ [][PushRefused => UNCHANGED <<buffer_, head_, tail_, pushOk, ringPopLog>>]_vars

\* the N-th try_push on the empty ring was refused, head_ has wrapped around
\* past tail_, and the ring holds N - 1 values again
C29_Witness ==
    /\ Capacity \in pushFail
    /\ \A i \in 1..(Capacity - 1) : i \in {pushOk[j] : j \in 1..Len(pushOk)}
    /\ headStores > Capacity
    /\ head_ < tail_
    /\ size(head_, tail_) = Capacity - 1
    /\ prodPc = "idle" /\ consPc = "idle"

-----------------------------------------------------------------------------
(* PING and PONG: the host with the connected viewer and the network between
   them, and a second endpoint that sends the host what it likes *)

\* a PING whose magic is wrong
BadPing ==
    [header |-> [Header(PING, {}, 0, 0, 0, 0, 0) EXCEPT !.magic = 0], payload |-> PingPayload(0)]

\* what the second endpoint sends: a HELLO, a BYE, and PONGs nobody asked for
StrangerDatagrams(t) == {Bare(HELLO), Bare(BYE), Bare(PONG), ControlPacket(PONG, 0, 0, PingPayload(t))}

Stranger == "v2"

\* of the datagrams out, those to the endpoint e
OutTo(out, e) ==
    LET at == {i \in 1..Len(out) : out[i].to = e}
        RECURSIVE Pick(_)
        Pick(i) == IF i > Len(out) THEN <<>>
                   ELSE IF i \in at THEN <<out[i].pkt>> \o Pick(i + 1) ELSE Pick(i + 1)
    IN Pick(1)

\* the host's receive thread polls: nothing has come, or a datagram of the
\* viewer, or one of the second endpoint
PingHostPoll ==
    /\ \/ /\ HostPoll(<<>>)
          /\ UNCHANGED toHost
       \/ \E d \in toHost :
             /\ HostPoll(<<[source |-> Viewer, pkt |-> d.pkt]>>)
             /\ toHost' = toHost \ {d}
       \/ \E pkt \in StrangerDatagrams(hostNow) :
             /\ HostPoll(<<[source |-> Stranger, pkt |-> pkt]>>)
             /\ UNCHANGED toHost
    /\ toViewer' = toViewer \cup Tag(OutTo(hostOut', Viewer), netSeq)
    /\ netSeq' = netSeq + Len(OutTo(hostOut', Viewer))
    /\ UNCHANGED <<bcastCount, nackLog, fedLog, emitEids, lastViewerPoll>>
    /\ UNCHANGED <<asmVars, queueVars, ringVars, connVars, extVars>>

\* the viewer's receive thread polls
PingViewerPoll ==
    /\ \E r \in {<<>>} \cup {<<d>> : d \in toViewer} : ViewerPoll(r)
    /\ UNCHANGED <<now, srcPacket, feedLog, reportLog, checkCalls, bcastCount>>
    /\ UNCHANGED <<queueVars, ringVars, connVars, hostVars, extVars>>

PingTick == HostTick /\ UNCHANGED nonHostVars

\* a PING of the wrong magic and a KEYFRAME_REQ are on their way to the viewer
SpecPingInit ==
    /\ AsmIdle /\ QueueIdle /\ RingInit /\ ConnIdle /\ ExtIdle
    /\ HostWithViewer
    /\ NetInit({[id |-> 0, pkt |-> BadPing], [id |-> -1, pkt |-> Bare(KEYFRAME_REQ)]})

PingNext == PingHostPoll \/ PingViewerPoll \/ PingTick

SpecPing == SpecPingInit /\ [][PingNext]_vars

\* the PINGs this step takes from the network to the viewer
PingsReceived ==
    {d \in toViewer \ toViewer' : is_valid(d.pkt.header) /\ d.pkt.header.type = PING}

\* the PONGs this step sends to the host
PongsSent == {x \in toHost' \ toHost : x.pkt.header.type = PONG}

\* the endpoint e is a peer whose round trip time is valid
RttValid(cl, e) == \E i \in 1..Len(cl) : cl[i].endpoint = e /\ cl[i].rtt_valid

\* C30: a poll of the viewer that receives a PING sends one PONG to the host,
\* with the PING's payload and the PING's sequence number; the viewer sends a
\* PONG in no other step; and a peer's rtt_valid turns true only in a poll of
\* the host that handles a PONG from that peer's endpoint.
C30_PingPong ==
    [][/\ \A d \in PingsReceived :
             /\ Cardinality(PongsSent) = 1
             /\ \A x \in PongsSent :
                   /\ x.pkt.payload = d.pkt.payload
                   /\ x.pkt.header.sequence = d.pkt.header.sequence
                   /\ is_valid(x.pkt.header)
       /\ PongsSent # {} => PingsReceived # {}
       /\ \A e \in Endpoints :
             (RttValid(clients_', e) /\ ~RttValid(clients_, e)) =>
                 /\ lastPoll'.before = clients_
                 /\ lastPoll'.rcv # <<>>
                 /\ lastPoll'.rcv[1].source = e
                 /\ is_valid(lastPoll'.rcv[1].pkt.header)
                 /\ lastPoll'.rcv[1].pkt.header.type = PONG]_vars

\* the viewer has answered a PING of the host, the host has handled the PONG,
\* which carries the PING's payload and number, and the viewer's round trip
\* time is valid; the second endpoint is a peer whose round trip time is not
C30_Witness ==
    /\ lastViewerPoll.rcv # <<>>
    /\ lastViewerPoll.rcv[1].header.type = PING
    /\ is_valid(lastViewerPoll.rcv[1].header)
    /\ lastPoll.rcv # <<>>
    /\ lastPoll.rcv[1].source = Viewer
    /\ lastPoll.rcv[1].pkt.header.type = PONG
    /\ lastPoll.rcv[1].pkt.header.sequence = lastViewerPoll.rcv[1].header.sequence
    /\ lastPoll.rcv[1].pkt.header.sequence > 0
    /\ lastPoll.rcv[1].pkt.payload = lastViewerPoll.rcv[1].payload
    /\ RttValid(clients_, Viewer) /\ ~RttValid(lastPoll.before, Viewer)
    /\ IsPeer(clients_, Stranger) /\ ~RttValid(clients_, Stranger)

-----------------------------------------------------------------------------
(* Viewer: the render loop of ClientSession::run beside decode_loop. The
   decoded frames are numbered as decode() returns them. push() and try_pop()
   of decoded_queue_ are one step each, under the queue's mutex. *)

\* frames decode() returns in one run
MaxRenderFrames == 4

\* run(): frame = std::move(f), with a loop that keeps the first frame instead
KeepFirst(frame, f) == IF frame = <<>> THEN <<f>> ELSE frame

\* run(): frame = std::move(f)
KeepLatest(frame, f) == <<f>>

nonRenderVars == <<coreVars, upVars, lockVars, stopVars, testVars, nonRenderMore>>

\* decode_loop: decode() returns a frame, decoded_queue_.push(frame)
RenderDecode ==
    /\ render.decoded < MaxRenderFrames
    /\ decoded_queue_' = PushTo(decoded_queue_, [pts_us |-> render.decoded + 1], DecodedCap)
    /\ render' = [render EXCEPT !.decoded = @ + 1]
    /\ UNCHANGED <<video_queue_, keyframeReqs, decodeLog, nonRenderVars>>

\* run(): the loop condition holds and poll_events() returns true
RenderBegin ==
    /\ render.pc = "top"
    /\ render' = [render EXCEPT !.pc = "drain", !.frame = <<>>, !.popped = <<>>]
    /\ UNCHANGED <<decVars, nonRenderVars>>

\* run(): the loop condition fails, or poll_events() returns false
RenderQuit ==
    /\ render.pc = "top"
    /\ render' = [render EXCEPT !.pc = "ended"]
    /\ UNCHANGED <<decVars, nonRenderVars>>

\* run(): while (auto f = decoded_queue_.try_pop()) frame = std::move(f)
RenderTryPop ==
    /\ render.pc = "drain"
    /\ IF decoded_queue_ = <<>>
           THEN /\ render' = [render EXCEPT !.pc = "show"]
                /\ UNCHANGED decoded_queue_
           ELSE /\ render' = [render EXCEPT !.frame = KeepLatest(@, Head(decoded_queue_)),
                                            !.popped = Append(@, Head(decoded_queue_))]
                /\ decoded_queue_' = Tail(decoded_queue_)
    /\ UNCHANGED <<video_queue_, keyframeReqs, decodeLog, nonRenderVars>>

\* run(): if (frame) renderer_.render_frame(*frame); else sleep_for(1 ms)
RenderShow ==
    /\ render.pc = "show"
    /\ render' = [render EXCEPT !.pc = "top",
                                !.rendered = @ \o render.frame,
                                !.skipped = @ \cup (SeqRange(render.popped) \ SeqRange(render.frame))]
    /\ UNCHANGED <<decVars, nonRenderVars>>

SpecRenderInit ==
    /\ AsmIdle /\ QueueIdle /\ RingInit /\ ConnIdle /\ HostIdle /\ NetIdle
    /\ UpIdle /\ LockIdle /\ StopIdle /\ DecInit /\ TestIdle /\ RenderElseIdle
    /\ render = NoRender

RenderNext == RenderDecode \/ RenderBegin \/ RenderQuit \/ RenderTryPop \/ RenderShow

SpecRender == SpecRenderInit /\ [][RenderNext]_vars

\* this step ends an iteration of the render loop
IterationEnds == render.pc = "show" /\ render'.pc = "top"

\* C31: an iteration of the render loop pops until decoded_queue_ is empty
\* and renders at most one frame, the last one it popped; the frames it
\* popped before that one are rendered in no iteration; the frames rendered
\* are in the order in which they were decoded, none of them twice.
C31_AlwaysLatest ==
    /\ [][/\ IterationEnds =>
                render'.rendered = render.rendered \o
                    (IF render.popped = <<>> THEN <<>>
                     ELSE <<render.popped[Len(render.popped)]>>)
          /\ ~IterationEnds => render'.rendered = render.rendered
          /\ (render.pc = "drain" /\ render'.pc = "show") => decoded_queue_ = <<>>]_vars
    /\ [](/\ \A i, j \in 1..Len(render.rendered) :
                i < j => render.rendered[i].pts_us < render.rendered[j].pts_us
          /\ \A i \in 1..Len(render.rendered) : render.rendered[i] \notin render.skipped)

\* one iteration has popped two frames and rendered the second, another has
\* rendered a later frame, and a frame was dropped by push() in between
C31_Witness ==
    /\ Len(render.rendered) = 2
    /\ render.skipped # {}
    /\ render.pc = "top"
    /\ Len(render.popped) = 1
    /\ render.decoded > Len(render.rendered) + Cardinality(render.skipped) + Len(decoded_queue_)

-----------------------------------------------------------------------------
(* Sessions: the loops of the threads while stop() runs. Every loop tests
   stop_requested() and running_, then waits once and works: on a queue
   (wait_pop), on the socket (recv_from), in sleep_for, or for the audio
   device to fill its buffer. A datum can end a wait early. One step is the
   end of a wait, the work that follows and the next test of the loop
   condition; a thread that goes on is in its next wait. *)

\* a wait that has no timeout
Forever == -1

\* the capture loop sleeps for one frame interval at most (30 fps)
FrameIntervalMs == 33
\* the audio device fills one frame in this time
AudioFrameMs == 20

\* a loop none of whose waits has a timeout
WaitForever(t) == Forever

\* the longest wait of one iteration of thread t's loop, in ms
WaitOf(t) ==
    CASE t = "capture_thread_" -> FrameIntervalMs
      [] t = "encode_thread_" -> 1
      [] t = "send_thread_" -> 1
      [] t = "poll_thread_" -> 100
      [] t = "audio_capture_thread_" -> AudioFrameMs
      [] t = "audio_encode_thread_" -> 50
      [] t = "client_audio_decode_thread_" -> 50
      [] t = "recv_thread_" -> 5
      [] t = "decode_thread_" -> 5
      [] t = "audio_decode_thread_" -> 10

\* the queue thread t waits on in wait_pop, if it does
WaitQueueOf(t) ==
    CASE t = "audio_encode_thread_" -> <<"audio_raw_queue_">>
      [] t = "client_audio_decode_thread_" -> <<"client_audio_queue_">>
      [] t = "decode_thread_" -> <<"video_queue_">>
      [] t = "audio_decode_thread_" -> <<"audio_queue_">>
      [] OTHER -> <<>>

\* stop() has closed the queue q
QueueClosed(q) == \E j \in 1..Len(stopLog) : stopLog[j] = Stmt("close", q)

\* the wait of thread t ends without a datum: its time is over, or its queue was closed
WaitEnds(t) ==
    \/ WaitOf(t) # Forever
    \/ \E i \in 1..Len(WaitQueueOf(t)) : QueueClosed(WaitQueueOf(t)[i])

\* the thread was told to stop, or running_ is false
StopSeen(t) == threadState[t] = "stopping" \/ ~loops.running

nonLoopsVars == <<coreVars, upVars, lockVars, decVars, testVars, nonLoopsMore>>

\* the rest of an iteration and the test of the next:
\* while (!st.stop_requested() && running_->load())
LoopTest(t) ==
    /\ t \in joinable
    /\ threadState[t] # "exited"
    /\ threadState' = IF StopSeen(t) THEN [threadState EXCEPT ![t] = "exited"] ELSE threadState
    /\ UNCHANGED <<session, joinable, stopPc, stopLog, loops, nonLoopsVars>>

\* the wait of thread t ends with nothing
LoopExpire(t) == WaitEnds(t) /\ LoopTest(t)

\* the wait ends with a datum, the thread works on it
LoopData(t) == LoopTest(t)

\* the signal handler, or the render loop on quit: running = false
ClearRunning ==
    /\ loops.running
    /\ loops' = [loops EXCEPT !.running = FALSE]
    /\ UNCHANGED <<stopVars, nonLoopsVars>>

\* the next statement of stop()
ShutdownStatement == StopStatement /\ UNCHANGED <<loops, nonLoopsVars>>

LoopThreads == SeqRange(HostThreadOrder) \cup SeqRange(ViewerThreadOrder)

SpecShutdownInit ==
    /\ AsmIdle /\ QueueIdle /\ RingInit /\ ConnIdle /\ HostIdle /\ NetIdle
    /\ UpIdle /\ LockIdle /\ DecInit /\ TestIdle /\ LoopsElseIdle
    /\ loops = NoLoops
    /\ \/ \E js \in HostJoinables : StopInit("host", js)
       \/ \E js \in ViewerJoinables : StopInit("viewer", js)

ShutdownNext ==
    \/ ShutdownStatement
    \/ ClearRunning
    \/ \E t \in LoopThreads : LoopTest(t)
    \/ \E t \in LoopThreads : LoopExpire(t)
    \/ \E t \in LoopThreads : LoopData(t)

\* stop() and every thread get to run; nothing says that data keep coming
SpecShutdown ==
    /\ SpecShutdownInit /\ [][ShutdownNext]_vars
    /\ WF_vars(ShutdownStatement)
    /\ \A t \in LoopThreads : WF_vars(LoopExpire(t))

AllExited == \A t \in joinable : threadState[t] = "exited"

-----------------------------------------------------------------------------
(* Host: sequence_ while the send thread is in broadcast() and the poll
   thread answers a HELLO. sequence_ is a plain integer that no mutex guards:
   broadcast() has fragment() post-increment it once per fragment, the poll
   thread post-increments it for the WELCOME and for the STREAM_CONFIG. An
   increment is a load and a store; the two threads' loads and stores
   interleave in any order. *)

\* fragments of the frame the send thread broadcasts
RaceFragments == 2
\* datagrams the poll thread numbers: WELCOME and STREAM_CONFIG
RaceReplies == 2

SeqThreads == {"send", "poll"}

nonSeqRaceVars == <<asmVars, queueVars, ringVars, connVars, netVars, upVars, lockVars, stopVars,
                    decVars, testVars, nonSeqRaceMore>>

hostButSequence == <<clients_, hostConfig, last_keyframe_, hostNow, last_ping_time_, silent,
                     hostOut, lastPoll>>

\* sequence_++ : the load
SeqLoad(t) ==
    /\ seqRace.pc[t] = "load"
    /\ seqRace' = [seqRace EXCEPT !.pc[t] = "store", !.tmp[t] = sequence_]
    /\ UNCHANGED <<sequence_, hostButSequence, nonSeqRaceVars>>

\* sequence_++ : the store; the datagram gets the value loaded
SeqStore(t) ==
    /\ seqRace.pc[t] = "store"
    /\ sequence_' = NextSeq(seqRace.tmp[t])
    /\ seqRace' = [seqRace EXCEPT !.pc[t] = IF seqRace.left[t] > 1 THEN "load" ELSE "done",
                                  !.left[t] = @ - 1,
                                  !.out = Append(@, [by |-> t, sequence |-> seqRace.tmp[t]])]
    /\ UNCHANGED <<hostButSequence, nonSeqRaceVars>>

\* broadcast() is about to fragment a frame, poll() has taken a HELLO
SpecSequenceInit ==
    /\ AsmIdle /\ QueueIdle /\ RingInit /\ ConnIdle /\ NetIdle
    /\ UpIdle /\ LockIdle /\ StopIdle /\ DecInit /\ TestIdle /\ SeqRaceElseIdle
    /\ \E seq \in 0..(SEQ_MOD - 1) :
          /\ sequence_ = seq
          /\ seqRace = [NoSeqRace EXCEPT !.pc = [send |-> "load", poll |-> "load"],
                                         !.left = [send |-> RaceFragments, poll |-> RaceReplies],
                                         !.start = seq]
    /\ clients_ = <<>> /\ hostConfig = [params |-> WelcomeParams, codec_data |-> <<1>>]
    /\ last_keyframe_ = NoKeyframe /\ hostNow = 0 /\ last_ping_time_ = 0
    /\ silent = {} /\ hostOut = <<>> /\ lastPoll = NoPoll

SequenceNext == \E t \in SeqThreads : SeqLoad(t) \/ SeqStore(t)

SpecSequence == SpecSequenceInit /\ [][SequenceNext]_vars

\* C33: with broadcast() on the send thread and the replies to a HELLO on the
\* poll thread, no increment of sequence_ is lost and no two datagrams the
\* host numbers get the same sequence value, the datagrams being fewer than
\* the values of the counter.
C33_SequenceMonotonic ==
    /\ \A i, j \in 1..Len(seqRace.out) :
          i # j => seqRace.out[i].sequence # seqRace.out[j].sequence
    /\ sequence_ = (seqRace.start + Len(seqRace.out)) % SEQ_MOD

-----------------------------------------------------------------------------
(* Reassembler: a frame whose frame_id has come round to that of an older
   frame of the same type, the fragments of each fed once, in any order,
   with purge_stale(500) called at any time *)

\* the keyframe that has AsmKeyframe's frame_id a full turn of the counter later
WrapKeyframe == [data |-> <<1, 0, 1, 0, 0>>, type |-> "VideoKeyframe", pts_us |-> 9, frame_id |-> 7]

\* assembler.purge_stale(), as poll() calls it
WrapPurge ==
    /\ Len(purgeLog) < MaxPurges
    /\ LogPurge(PURGE_TIMEOUT_MS)
    /\ UNCHANGED nonTestVars

WrapNext == InterleaveFeed \/ WrapPurge \/ PurgeTick

SpecWrapInit ==
    /\ AsmIdle
    /\ QueueIdle /\ RingInit /\ ConnIdle /\ HostIdle /\ NetIdle
    /\ UpIdle /\ LockIdle /\ StopIdle /\ DecInit /\ MoreIdle
    /\ TestInit(<<AsmKeyframe, WrapKeyframe>>)

SpecWrap == SpecWrapInit /\ [][WrapNext]_vars

\* C34: every packet the reassembler returns is made of the fragments of one
\* frame, also when a frame has the frame_id and type of an older frame whose
\* entry is still pending.
C34_OneSourceFrame ==
    \A j \in 1..Len(feedResults) :
        feedResults[j] # <<>> =>
            \E f \in 1..Len(frames) : feedResults[j][1].data = frames[f].data

-----------------------------------------------------------------------------
(* Reassembler: the received count of an entry and the fragment indices fed
   to it *)

\* the indices within the entry's frag_total that the first upto feeds gave the entry eid
IndicesFed(eid, upto) ==
    LET mine == {i \in 1..upto : feedLog[i].eid = eid}
        first == CHOOSE c \in mine : \A i \in mine : c <= i
    IN IF mine = {} THEN {}
       ELSE {feedLog[i].pkt.header.frag_idx : i \in mine}
                \cap 0..(feedLog[first].pkt.header.frag_total - 1)

\* the frag_total of the entry eid: that of the fragment that created it
TotalOf(eid) ==
    LET mine == {i \in 1..Len(feedLog) : feedLog[i].eid = eid}
        first == CHOOSE c \in mine : \A i \in mine : c <= i
    IN feedLog[first].pkt.header.frag_total

\* C35: the received count of every reassembly entry is the number of
\* distinct fragment indices fed for it and is at most frag_total, whatever
\* the fragments' payloads; a packet is returned only when every index
\* 0..frag_total-1 was fed.
C35_ReceivedCount ==
    /\ \A key \in DOMAIN pending_ :
          /\ pending_[key].frags_received = Cardinality(IndicesFed(pending_[key].eid, Len(feedLog)))
          /\ pending_[key].frags_received <= pending_[key].frag_total
    /\ \A j \in 1..Len(feedResults) :
          feedResults[j] # <<>> =>
              IndicesFed(feedLog[j].eid, j) = 0..(TotalOf(feedLog[j].eid) - 1)

-----------------------------------------------------------------------------
(* Host: broadcast() on the send thread, one step per socket send, while the
   poll thread handles HELLO and BYE. The poll thread changes clients_ inside
   a lock_guard on clients_mutex_, which is one step. *)

\* calls of broadcast() in one run
MaxBroadcasts == 2
\* HELLOs and BYEs the poll thread handles in one run
MaxShakes == 3

\* a broadcast() that takes no lock
BroadcastLockSkipped(t) == NoLock

\* broadcast(): std::lock_guard lock(clients_mutex_)
BroadcastLock(t) == LockClients(t)

\* the end of broadcast()'s lock_guard
BroadcastUnlock(t) ==
    /\ clients_mutex_' = IF clients_mutex_ = t THEN "free" ELSE clients_mutex_
    /\ UNCHANGED keyframe_mutex_

nonBloopVars == <<asmVars, queueVars, ringVars, connVars, netVars, upVars, stopVars, decVars,
                  testVars, nonBloopMore>>

hostButPeers == <<hostConfig, last_keyframe_, hostNow, last_ping_time_, silent, lastPoll>>

\* broadcast(): fragment(); the frame is no keyframe
BloopBegin ==
    /\ bloop.pc = "idle"
    /\ Len(bloop.calls) < MaxBroadcasts
    /\ LET fragments == fragment(AsmPFrame, sequence_)
       IN /\ bloop' = [bloop EXCEPT !.pc = "lock", !.fragments = fragments]
          /\ sequence_' = (sequence_ + Len(fragments)) % SEQ_MOD
    /\ UNCHANGED <<clients_, hostOut, hostButPeers, lockVars, nonBloopVars>>

\* broadcast(): the lock_guard, and the loops begin
BloopLock ==
    /\ bloop.pc = "lock"
    /\ BroadcastLock("send")
    /\ bloop' = [bloop EXCEPT !.pc = "loop", !.peers = clients_, !.ci = 1, !.fi = 1,
                              !.sent = <<>>]
    /\ UNCHANGED <<hostVars, lockPc, lockLeft, nonBloopVars>>

\* broadcast(): socket_.send_to(data, client.endpoint), and the loops advance
BloopSend ==
    /\ bloop.pc = "loop"
    /\ bloop.ci <= Len(clients_)
    /\ LET d == [to |-> clients_[bloop.ci].endpoint, pkt |-> bloop.fragments[bloop.fi]]
           last == bloop.fi = Len(bloop.fragments)
       IN /\ bloop' = [bloop EXCEPT !.sent = Append(@, d),
                                    !.fi = IF last THEN 1 ELSE @ + 1,
                                    !.ci = IF last THEN @ + 1 ELSE @]
          /\ hostOut' = <<d>>
    /\ UNCHANGED <<clients_, sequence_, hostButPeers, lockVars, nonBloopVars>>

\* broadcast(): the loop over clients_ is over, the function returns
BloopEnd ==
    /\ bloop.pc = "loop"
    /\ bloop.ci > Len(clients_)
    /\ BroadcastUnlock("send")
    /\ bloop' = [bloop EXCEPT !.pc = "idle", !.fragments = <<>>, !.peers = <<>>,
                              !.ci = 1, !.fi = 1, !.sent = <<>>,
                              !.calls = Append(@, [peers |-> bloop.peers,
                                                   fragments |-> bloop.fragments,
                                                   sent |-> bloop.sent])]
    /\ UNCHANGED <<hostVars, lockPc, lockLeft, nonBloopVars>>

\* poll(): handle_hello, its block under clients_mutex_ and its replies
BloopHello ==
    /\ bloop.shakes < MaxShakes
    /\ clients_mutex_ = "free"
    /\ \E e \in Endpoints :
          LET h == handle_hello(clients_, sequence_, hostConfig, e)
          IN /\ clients_' = h.clients
             /\ sequence_' = h.sequence
             /\ hostOut' = h.out
    /\ bloop' = [bloop EXCEPT !.shakes = @ + 1]
    /\ UNCHANGED <<hostButPeers, lockVars, nonBloopVars>>

\* poll(): case BYE, under clients_mutex_
BloopBye ==
    /\ bloop.shakes < MaxShakes
    /\ clients_mutex_ = "free"
    /\ \E e \in Endpoints : clients_' = EraseEndpoint(clients_, e)
    /\ bloop' = [bloop EXCEPT !.shakes = @ + 1]
    /\ UNCHANGED <<sequence_, hostOut, hostButPeers, lockVars, nonBloopVars>>

SpecBroadcastInit ==
    /\ AsmIdle /\ QueueIdle /\ RingInit /\ ConnIdle /\ HostIdle /\ NetIdle
    /\ UpIdle /\ LockIdle /\ StopIdle /\ DecInit /\ TestIdle /\ BloopElseIdle
    /\ bloop = NoBloop

BroadcastNext ==
    BloopBegin \/ BloopLock \/ BloopSend \/ BloopEnd \/ BloopHello \/ BloopBye

SpecBroadcast == SpecBroadcastInit /\ [][BroadcastNext]_vars

\* the fragment indices sent to the endpoint e, in the order of sending
SentTo(sent, e) ==
    LET RECURSIVE Pick(_)
        Pick(i) == IF i > Len(sent) THEN <<>>
                   ELSE IF sent[i].to = e THEN <<sent[i].pkt.header.frag_idx>> \o Pick(i + 1)
                   ELSE Pick(i + 1)
    IN Pick(1)

\* C36: during one call of broadcast() the peer table is what it was at the
\* lock; the call sends every fragment of the frame, in index order, to every
\* peer of that table and nothing to anybody else; a HELLO or a BYE changes
\* the table before the first or after the last send of a call.
C36_BroadcastAtomic ==
    /\ [](bloop.pc = "loop" => clients_ = bloop.peers)
    /\ [](\A k \in 1..Len(bloop.calls) :
            LET c == bloop.calls[k]
            IN /\ c.sent = ToAll(c.peers, c.fragments)
               /\ \A e \in Endpoints :
                     SentTo(c.sent, e) =
                         IF IsPeer(c.peers, e)
                             THEN [i \in 1..Len(c.fragments) |-> i - 1]
                             ELSE <<>>)
    /\ [][clients_' # clients_ => bloop.pc # "loop" /\ bloop'.pc # "loop"]_vars

\* a call has sent the frame's two fragments to two peers; the poll thread
\* has then removed a peer, with the send thread about to take the lock, and
\* the next call has sent the frame to the one peer left
C36_Witness ==
    /\ Len(bloop.calls) = 2
    /\ Len(bloop.calls[1].peers) = 2
    /\ Len(bloop.calls[1].sent) = 2 * Len(bloop.calls[1].fragments)
    /\ Len(bloop.calls[1].fragments) = 2
    /\ Len(bloop.calls[2].peers) = 1
    /\ Len(bloop.calls[2].sent) = 2
    /\ bloop.shakes = 3

-----------------------------------------------------------------------------
(* Viewer and host: connect() and disconnect() of one Client, whose socket
   keeps its endpoint, against the host's poll(), over a network that loses
   datagrams. recv_from in connect() times out only when nothing is on its
   way to the viewer and the host has handled what the viewer sent. *)

\* datagrams the network loses in one run
MaxLost == 2

nonRecoverVars == <<asmVars, queueVars, ringVars, netVars, upVars, lockVars, stopVars, decVars,
                    testVars, nonRecoverMore>>

\* the fields of a datagram that connect() looks at
Seen(pkt) ==
    [header |-> [magic |-> pkt.header.magic, version |-> pkt.header.version,
                 type |-> pkt.header.type],
     payload |-> pkt.payload]

\* what recv_from gives the viewer now
RecoverRecv == IF recover.toViewer = <<>> THEN Timeout ELSE <<Seen(Head(recover.toViewer))>>

\* recv_from may return: a datagram is there, or nothing is on its way
RecoverRecvReturns == recover.toViewer # <<>> \/ recover.toHost = <<>>

\* the datagrams of out that go to the viewer
RECURSIVE ToViewerOf(_)
ToViewerOf(out) ==
    IF out = <<>> THEN <<>>
    ELSE IF out[1].to = Viewer THEN <<out[1].pkt>> \o ToViewerOf(Tail(out))
    ELSE ToViewerOf(Tail(out))

\* connect() up to the HELLO
RecoverConnect ==
    /\ socketOk
    /\ ConnectCall
    /\ recover' = [recover EXCEPT !.toHost = Append(@, Bare(HELLO))]
    /\ UNCHANGED <<hostVars, nonRecoverVars>>

\* connect(): the wait for the WELCOME
RecoverRecvWelcome ==
    /\ RecoverRecvReturns
    /\ ConnectRecvWelcome
    /\ connFirst' = <<RecoverRecv>>
    /\ recover' = [recover EXCEPT !.toViewer = IF @ = <<>> THEN @ ELSE Tail(@),
                                  !.failed = @ \/ connRet' = "false"]
    /\ UNCHANGED <<hostVars, nonRecoverVars>>

\* connect(): the wait for the STREAM_CONFIG
RecoverRecvConfig ==
    /\ RecoverRecvReturns
    /\ ConnectRecvConfig
    /\ viewerConfig' =
           IF RecoverRecv # Timeout /\ IsStreamConfig(RecoverRecv[1])
               THEN [viewerConfig EXCEPT !.codec_data = RecoverRecv[1].payload]
               ELSE viewerConfig
    /\ recover' = [recover EXCEPT !.toViewer = IF @ = <<>> THEN @ ELSE Tail(@)]
    /\ UNCHANGED <<hostVars, nonRecoverVars>>

\* disconnect()
RecoverDisconnect ==
    /\ Disconnect
    /\ recover' = [recover EXCEPT !.toHost = Append(@, Bare(BYE))]
    /\ UNCHANGED <<hostVars, nonRecoverVars>>

\* the host's poll() receives the next datagram of the viewer
RecoverHostPoll ==
    /\ recover.toHost # <<>>
    /\ HostPoll(<<[source |-> Viewer, pkt |-> Head(recover.toHost)]>>)
    /\ recover' = [recover EXCEPT !.toHost = Tail(@),
                                  !.toViewer = @ \o ToViewerOf(hostOut')]
    /\ UNCHANGED <<connVars, nonRecoverVars>>

\* the network loses the next datagram to the viewer
RecoverLose ==
    /\ recover.lost < MaxLost
    /\ recover.toViewer # <<>>
    /\ recover' = [recover EXCEPT !.toViewer = Tail(@), !.lost = @ + 1]
    /\ UNCHANGED <<hostVars, connVars, nonRecoverVars>>

\* the network loses the next datagram to the host
RecoverLoseUp ==
    /\ recover.lost < MaxLost
    /\ recover.toHost # <<>>
    /\ recover' = [recover EXCEPT !.toHost = Tail(@), !.lost = @ + 1]
    /\ UNCHANGED <<hostVars, connVars, nonRecoverVars>>

SpecRecoverInit ==
    /\ AsmIdle /\ QueueIdle /\ RingInit /\ ConnIdle /\ NetIdle
    /\ UpIdle /\ LockIdle /\ StopIdle /\ DecInit /\ TestIdle /\ RecoverElseIdle
    /\ \E cfg \in HostConfigs : HostInit(cfg)
    /\ recover = NoRecover

RecoverNext ==
    \/ RecoverConnect
    \/ RecoverRecvWelcome
    \/ RecoverRecvConfig
    \/ RecoverDisconnect
    \/ RecoverHostPoll
    \/ RecoverLose
    \/ RecoverLoseUp

SpecRecover == SpecRecoverInit /\ [][RecoverNext]_vars

\* the step is a poll() of the host that receives a HELLO of the viewer
HelloHandled ==
    /\ recover.toHost # <<>>
    /\ Head(recover.toHost).header.type = HELLO
    /\ recover'.toHost = Tail(recover.toHost)
    /\ recover'.lost = recover.lost

\* C37: when a connect() has failed and left the viewer Disconnected, the
\* host answers the HELLO of the viewer's next connect() with a WELCOME.
C37_HelloAnswered ==
    [][(HelloHandled /\ recover.failed)
          => \E i \in 1..Len(hostOut') :
                 hostOut'[i].to = Viewer /\ hostOut'[i].pkt.header.type = WELCOME]_vars

-----------------------------------------------------------------------------
(* Viewer: how long a reassembly entry lives. The receive thread calls poll()
   again and again and the clock advances; nothing forces a datagram to come,
   and the NACKs the viewer sends stay unanswered. *)

\* the network loses a datagram on its way to the viewer
StaleLose ==
    /\ \E d \in toViewer : toViewer' = toViewer \ {d}
    /\ UNCHANGED <<toHost, netSeq, bcastCount, nackLog, fedLog, emitEids, lastViewerPoll>>
    /\ UNCHANGED <<asmVars, queueVars, ringVars, connVars, hostVars, extVars>>

\* frames the host broadcasts in one run
MaxStaleFrames == 1

\* the host broadcasts its next frame
StaleBroadcast == bcastCount < MaxStaleFrames /\ NackBroadcast

\* the host broadcasts and, in this part, does not poll
StaleNext == NackViewerPoll \/ StaleBroadcast \/ AsmTick \/ StaleLose

SpecStale ==
    /\ SpecNackInit
    /\ [][StaleNext]_vars
    /\ WF_vars(NackViewerPoll)
    /\ WF_vars(AsmTick)

\* an entry is older than PURGE_TIMEOUT_MS
SomeStale == \E k \in DOMAIN pending_ : now - pending_[k].created > PURGE_TIMEOUT_MS

\* a keyframe entry older than NACK_AGE_MS was not reported
SomeUnreported == \E k \in DOMAIN pending_ : Reportable(pending_[k], NACK_AGE_MS, now)

\* C38: with poll() called again and again, an entry older than 500 ms is
\* removed, and an incomplete keyframe older than 100 ms is reported for a
\* NACK or removed, whether a datagram arrives or not.
C38_EntriesExpire ==
    /\ SomeStale ~> ~SomeStale
    /\ SomeUnreported ~> ~SomeUnreported

-----------------------------------------------------------------------------
(* Host: a KEYFRAME_REQ from poll() through the encode thread and the send
   thread. raw_buffer_ and encoded_buffer_ are RingBuffers of 4 slots, which
   hold 3 items; of their items the model keeps the number and the frame
   types. The encoder gives a keyframe when asked to and at the start of each
   GOP. *)

\* AVCodecContext::gop_size
GopSize == 60
\* slots of raw_buffer_ and of encoded_buffer_
PipeSlots == 4
\* KEYFRAME_REQs handled in one run
MaxKeyframeReqs == 2

rateButEncoder == <<target_bitrate_, current_bitrate_, last_bitrate_check_, rateNow, lastAbr>>

nonKfpipeVars == <<asmVars, queueVars, ringVars, connVars, netVars, upVars, lockVars, stopVars,
                   decVars, testVars, wireVars, queueRet, lastShake, rateButEncoder, cacheVars,
                   nonKfpipeLast>>

\* an encode() that leaves the flag as it is
encode_keeping_flag(enc, gop) ==
    [encoder |-> enc,
     type |-> IF enc.force_keyframe_ \/ gop = 0 THEN "VideoKeyframe" ELSE "VideoPFrame"]

\* VideoEncoder::encode, of an initialized encoder: force_keyframe_.exchange(false)
encode(enc, gop) ==
    [encoder |-> [enc EXCEPT !.force_keyframe_ = FALSE],
     type |-> IF enc.force_keyframe_ \/ gop = 0 THEN "VideoKeyframe" ELSE "VideoPFrame"]

\* poll() receives a KEYFRAME_REQ: keyframe_cb_, which is request_keyframe()
KfRequest ==
    /\ kfpipe.requests < MaxKeyframeReqs
    /\ \E e \in Endpoints : HostPoll(<<[source |-> e, pkt |-> Bare(KEYFRAME_REQ)]>>)
    /\ encoder_' = [encoder_ EXCEPT !.force_keyframe_ = TRUE]
    /\ kfpipe' = [kfpipe EXCEPT !.requests = @ + 1, !.owed = TRUE]
    /\ UNCHANGED nonKfpipeVars

\* capture_loop: one frame, dropped when raw_buffer_ is full
KfCapture ==
    /\ kfpipe.raw < PipeSlots - 1
    /\ kfpipe' = [kfpipe EXCEPT !.raw = @ + 1]
    /\ UNCHANGED <<encoder_, hostVars, nonKfpipeVars>>

\* encode_loop: try_pop, encode, try_push; the packet is dropped when
\* encoded_buffer_ is full
KfEncode ==
    /\ kfpipe.raw > 0
    /\ encoder_.initialized_
    /\ LET e == encode(encoder_, kfpipe.gop)
           full == Len(kfpipe.encoded) = PipeSlots - 1
       IN /\ encoder_' = e.encoder
          /\ kfpipe' = [kfpipe EXCEPT
                 !.raw = @ - 1,
                 !.gop = IF e.type = "VideoKeyframe" THEN 1 ELSE (@ + 1) % GopSize,
                 !.encoded = IF full THEN @ ELSE Append(@, e.type),
                 !.forced = IF encoder_.force_keyframe_ THEN @ + 1 ELSE @]
    /\ UNCHANGED <<hostVars, nonKfpipeVars>>

\* network_send_loop: try_pop and broadcast; of the broadcast this part keeps
\* the frame's type, the datagrams are those of HostBroadcast
KfSend ==
    /\ kfpipe.encoded # <<>>
    /\ LET type == Head(kfpipe.encoded)
       IN kfpipe' = [kfpipe EXCEPT !.encoded = Tail(@), !.last = type,
                                   !.owed = @ /\ type # "VideoKeyframe"]
    /\ UNCHANGED <<encoder_, hostVars, nonKfpipeVars>>

SpecKeyframeReqInit ==
    /\ AsmIdle /\ QueueIdle /\ RingInit /\ ConnIdle /\ HostWithViewer /\ NetIdle
    /\ UpIdle /\ LockIdle /\ StopIdle /\ DecInit /\ TestIdle /\ KfpipeElseIdle
    /\ kfpipe = NoKfpipe

KeyframeReqNext == KfRequest \/ KfCapture \/ KfEncode \/ KfSend

\* capture produces frames, the encode and the send thread are scheduled
SpecKeyframeReq ==
    /\ SpecKeyframeReqInit
    /\ [][KeyframeReqNext]_vars
    /\ WF_vars(KfCapture) /\ WF_vars(KfEncode) /\ WF_vars(KfSend)

\* C39: a KEYFRAME_REQ handled by the host sets force_keyframe_, the next
\* encode() clears it, requests before one encode() force one keyframe, and a
\* request is followed by the broadcast of a keyframe.
C39_RequestServed ==
    /\ [][kfpipe'.requests # kfpipe.requests => encoder_'.force_keyframe_]_vars
    /\ [][kfpipe'.raw < kfpipe.raw => ~encoder_'.force_keyframe_]_vars
    /\ [](kfpipe.forced <= kfpipe.requests)
    /\ kfpipe.owed ~> ~kfpipe.owed

-----------------------------------------------------------------------------
(* Host: datagrams from endpoints that are no peers. One viewer is a peer;
   both endpoints send HELLO, BYE, NACK, PONG and KEYFRAME_REQ at any time,
   the host broadcasts keyframes and its clock advances. *)

\* keyframes the host broadcasts in one run
MaxStrangerFrames == 1

netButCount == <<toViewer, toHost, netSeq, nackLog, fedLog, emitEids, lastViewerPoll>>

strangerElse == <<asmVars, queueVars, ringVars, connVars, netButCount, upVars, lockVars,
                  stopVars, decVars, testVars, wireVars, queueRet, rateButEncoder, cacheVars,
                  lastVars>>

\* what an endpoint sends the host
EndpointDatagrams ==
    {Bare(HELLO), Bare(BYE), Bare(PONG), Bare(KEYFRAME_REQ),
     ControlPacket(PONG, 0, 0, PingPayload(0)),
     send_nack(AsmKeyframe.frame_id, <<0>>)[1]}

\* the host's poll() receives a datagram of an endpoint; a KEYFRAME_REQ goes
\* to keyframe_cb_, which is request_keyframe()
StrangerPoll ==
    \E e \in Endpoints, pkt \in EndpointDatagrams :
        LET r == <<[source |-> e, pkt |-> pkt]>>
        IN /\ HostPoll(r)
           /\ lastShake' = ShakeAfter(r)
           /\ encoder_' = IF pkt.header.type = KEYFRAME_REQ
                              THEN [encoder_ EXCEPT !.force_keyframe_ = TRUE]
                              ELSE encoder_
           /\ UNCHANGED <<bcastCount, strangerElse>>

StrangerBroadcast ==
    /\ bcastCount < MaxStrangerFrames
    /\ bcastCount' = bcastCount + 1
    /\ HostBroadcast(AsmKeyframe)
    /\ UNCHANGED <<lastShake, encoder_, strangerElse>>

StrangerTick == HostTick /\ UNCHANGED <<lastShake, encoder_, bcastCount, strangerElse>>

SpecStrangerInit ==
    /\ AsmIdle /\ QueueIdle /\ RingInit /\ ConnIdle /\ NetIdle
    /\ UpIdle /\ LockIdle /\ StopIdle /\ DecInit /\ TestIdle /\ ShakeElseIdle
    /\ HostWithViewer
    /\ lastShake = [NoShake EXCEPT ![Viewer] = "HELLO"]

StrangerNext == StrangerPoll \/ StrangerBroadcast \/ StrangerTick

SpecStranger == SpecStrangerInit /\ [][StrangerNext]_vars

\* the step is a poll() that received a NACK, a PONG or a KEYFRAME_REQ from
\* an endpoint whose last HELLO or BYE, if any, was no HELLO
FromNoPeer ==
    /\ lastPoll' # lastPoll \/ hostOut' # hostOut \/ encoder_' # encoder_
    /\ lastPoll'.rcv # <<>>
    /\ lastPoll'.rcv[1].pkt.header.type \in {NACK, PONG, KEYFRAME_REQ}
    /\ lastShake[lastPoll'.rcv[1].source] # "HELLO"

\* C40: a VIDEO_DATA, AUDIO_DATA or PING datagram goes to an endpoint that is
\* in the peer table when it is sent; a NACK, PONG or KEYFRAME_REQ from an
\* endpoint that is no peer has no datagram sent to that endpoint and leaves
\* the peer table, the keyframe cache and the encoder's flag as they are.
C40_OnlyToPeers ==
    [][/\ (hostOut' # hostOut \/ lastPoll' # lastPoll) =>
              \A i \in 1..Len(hostOut') :
                  IsStreamed(hostOut'[i]) => IsPeer(clients_, hostOut'[i].to)
       /\ FromNoPeer =>
              /\ OutTo(hostOut', lastPoll'.rcv[1].source) = <<>>
              /\ clients_' = clients_
              /\ last_keyframe_' = last_keyframe_
              /\ encoder_' = encoder_
      ]_vars

=============================================================================
